---------------------------- MODULE Spec2Model ----------------------------
(***************************************************************************)
(* Verification model of the duct pipe stack: the bounded MessageQueue,    *)
(* the wire framing codec, the shared-memory ring, the reconnect           *)
(* supervisor pipe, the close paths of the pipe kinds, the QoS send queue  *)
(* with its worker, the transport dispatch of listen and dial, the shm     *)
(* bootstrap of dial and accept, and the backoff of the reconnect worker.  *)
(*                                                                         *)
(* Each component has its own variables, its own Init and Next and its own *)
(* specification; a component's actions leave the other components'        *)
(* variables unchanged.                                                    *)
(***************************************************************************)
EXTENDS Integers, Sequences, FiniteSets, TLC

VARIABLES
  \* ---- MessageQueue (src/src/queue.cc) ----
  q_hwm,        \* hwm_bytes_
  q_policy,     \* policy_
  q_ttl,        \* ttl_
  q_queue,      \* queue_ : sequence of [id, size, deadline]
  q_total,      \* total_bytes_
  q_closed,     \* closed_
  q_now,        \* std::chrono::steady_clock::now()
  q_thr,        \* per caller thread: where it is inside push/pop
  q_res,        \* the call that finished last: its status, and for a pop the message id
  q_nextId,     \* identity of the next message handed to push
  \* ---- wire::encode_header / decode_header (src/src/state_callback_pipe.cc) ----
  c_h,          \* the FrameHeader given to encode_header
  c_encLE,      \* the encoding host is little-endian
  c_decLE,      \* the decoding host is little-endian
  c_out,        \* out[kHeaderLen] after encode_header (empty before)
  c_dec,        \* the Result<FrameHeader> of decode_header(c_out)
  \* ---- wire::write_frame / read_frame over one stream socket ----
  w_wLE,        \* the writing host is little-endian
  w_rLE,        \* the reading host is little-endian
  w_wpc,        \* writer: "idle", or in write_all of the "hdr" / the "payload"
  w_wbuf,       \* writer: the bytes write_all still has to send (p, n)
  w_wmsg,       \* writer: the payload of the write_frame in progress
  w_calls,      \* number of frames the writing end has started
  w_sent,       \* payloads of the write_frame calls that returned Ok, in order
  w_wres,       \* status code of the last write_frame
  w_stream,     \* bytes written and not yet read
  w_wclosed,    \* the writing end has closed its socket
  w_raw,        \* the writing end is a foreign peer that does not use write_frame
  w_rpc,        \* reader: "idle", or in read_exact of the "hdr" / the "payload"
  w_rneed,      \* reader: n of the read_exact in progress
  w_rgot,       \* reader: the bytes read_exact has stored so far
  w_rused,      \* reader: bytes taken off the stream by the current read_frame
  w_rhdr,       \* reader: hdr[kHeaderLen] of the latest read_frame, once filled
  w_rlog,       \* results of the read_frame calls that returned, in order
  \* ---- one direction of a shared-memory connection (src/unnamed/part_005) ----
  s_head,       \* Ring::meta.head
  s_tail,       \* Ring::meta.tail
  s_slots,      \* Ring::slots: kSlotCount slots [len, data]
  s_spaces,     \* the count of the "spaces" semaphore
  s_items,      \* the count of the "items" semaphore
  s_spc,        \* the sender's place in ShmPipe::send
  s_smsg,       \* send: msg
  s_stimeout,   \* send: opt.timeout while sem_wait_opt runs
  s_shead,      \* send: the local head
  s_calls,      \* number of send calls made so far
  s_sres,       \* status code of the last send
  s_rpc,        \* the receiver's place in ShmPipe::recv
  s_rtimeout,   \* recv: opt.timeout while sem_wait_opt runs
  s_rtail,      \* recv: the local tail
  s_rlen,       \* recv: the local len
  s_rbuf,       \* recv: the bytes Message::from_bytes has copied so far
  s_rres,       \* status code of the last recv
  s_sent,       \* payloads of the sends that returned Ok, in order
  s_recvd,      \* payloads of the recvs that returned Ok, in order
  \* ---- ReconnectPipe (src/unnamed/part_003) ----
  p_max,        \* policy_.max_attempts
  p_failN,      \* the dialler fails its first p_failN calls, then succeeds; -1: it may
                \* fail or succeed at every call
  p_closed,     \* closed_
  p_failed,     \* permanently_failed_
  p_state,      \* state_
  p_ever,       \* ever_connected_
  p_lasterr,    \* last_error_ is not empty
  p_inner,      \* inner_: 0 for none, else the number of the pipe installed
  p_pipes,      \* the pipes the dialler has returned: TRUE while open
  p_dials,      \* calls of dial_once_ so far
  p_attempts,   \* worker_loop: attempts
  p_r,          \* worker_loop: the pipe in r after a successful dial
  p_thr,        \* for the worker, the callers and the closing thread: the place in the
                \* code, the argument and continuation of a set_state in progress, and
                \* the locals of send/recv and close; passed counts the calls of
                \* inner_snapshot->send of the send in progress
  p_res,        \* the call that returned last: its status code and, for a send, the
                \* times it passed the message to an inner pipe
  p_cb,         \* the state on_state_change_ was last called with
  \* ---- close of a ShmPipe, and of a QosPipe or StateCallbackPipe around one ----
  k_kind,       \* the kind of the pipe in use
  k_shm,        \* the ShmPipe: h_ (mem, shm_fd, the four semaphores), owner_, whether the
                \* names are linked, and how often each resource has been released
  k_running,    \* QosPipe::running_
  k_sc,         \* StateCallbackPipe: closed_, disconnected_, inner_ is set
  k_cbs,        \* the states cb_ has been called with, in order
  k_closes,     \* calls of close that have returned
  \* ---- QosPipe (src/src/qos_pipe.cc) ----
  o_hwm,        \* qos_.snd_hwm_bytes
  o_policy,     \* qos_.backpressure
  o_ttl,        \* qos_.ttl
  o_inner,      \* underlying_: "ok" if its send always succeeds, "any" if it may fail,
                \* "stalled" if it never returns
  o_running,    \* running_
  o_closed,     \* close has been called
  o_queue,      \* send_queue_ : sequence of [id, size, timestamp]
  o_bytes,      \* send_bytes_
  o_count,      \* send_count_
  o_now,        \* std::chrono::steady_clock::now()
  o_wpc,        \* send_worker: at the top of its "loop", in its "sleep", or "done"
  o_call,       \* the sending thread: its place in send, and the message it sends
  o_res,        \* the send that returned last: its status code and its message
  o_sent,       \* the messages underlying_->send has accepted, in order
  o_last,       \* the worker's latest turn: the message it passed to underlying_->send
                \* and the status returned, if it called it
  o_nextId,     \* identity of the next message handed to send
  \* ---- duct::listen / duct::dial (src/src/qos_pipe.cc) ----
  d_in,         \* the call: listen or dial, its address, its options, the host, and what
                \* the transport's connect or bind will answer
  d_out,        \* what the call returned: the status, the transport it used and the
                \* wrappers around the transport's pipe, outermost first
  \* ---- shm bootstrap: shm_dial and ShmListener::accept (src/unnamed/part_005) ----
  b_dial,       \* per dial call: its position, the connection id it drew, what it has sent
  b_names,      \* the POSIX name space: per resource-name prefix, the dial call whose
                \* region and semaphores are linked under it, or 0
  b_ring,       \* per region (named after the dial call that created it): the messages
                \* in its client-to-server and server-to-client rings
  b_sock,       \* per dial call, its bootstrap connection: "none", "pending", "written"
  b_backlog,    \* the connections waiting in the listener's accept queue, oldest first
  b_accept,     \* per thread calling accept: its position and the connection it took
  b_pipes,      \* the pipes the accepts have returned, in order
  b_got,        \* the messages received: who received, on which connection, from whom
  \* ---- ReconnectPipe::worker_loop, the backoff arithmetic (src/unnamed/part_003) ----
  r_ep          \* the policy, and the worker's attempts, delay, sleep_for and position

qvars == <<q_hwm, q_policy, q_ttl, q_queue, q_total, q_closed, q_now, q_thr, q_res, q_nextId>>

cvars == <<c_h, c_encLE, c_decLE, c_out, c_dec>>

wvars == <<w_wLE, w_rLE, w_wpc, w_wbuf, w_wmsg, w_calls, w_sent, w_wres, w_stream,
           w_wclosed, w_raw, w_rpc, w_rneed, w_rgot, w_rused, w_rhdr, w_rlog>>

svars == <<s_head, s_tail, s_slots, s_spaces, s_items, s_spc, s_smsg, s_stimeout, s_shead,
           s_calls, s_sres, s_rpc, s_rtimeout, s_rtail, s_rlen, s_rbuf, s_rres, s_sent, s_recvd>>

pvars == <<p_max, p_failN, p_closed, p_failed, p_state, p_ever, p_lasterr, p_inner, p_pipes,
           p_dials, p_attempts, p_r, p_thr, p_res, p_cb>>

kvars == <<k_kind, k_shm, k_running, k_sc, k_cbs, k_closes>>

ovars == <<o_hwm, o_policy, o_ttl, o_inner, o_running, o_closed, o_queue, o_bytes, o_count, o_now,
           o_wpc, o_call, o_res, o_sent, o_last, o_nextId>>

dvars == <<d_in, d_out>>

bvars == <<b_dial, b_names, b_ring, b_sock, b_backlog, b_accept, b_pipes, b_got>>

rvars == <<r_ep>>

vars == <<qvars, cvars, wvars, svars, pvars, kvars, ovars, dvars, bvars, rvars>>

\* What the actions of one component leave alone.
nonq == <<cvars, wvars, svars, pvars, kvars, ovars, dvars, bvars, rvars>>

nonc == <<qvars, wvars, svars, pvars, kvars, ovars, dvars, bvars, rvars>>

nonw == <<qvars, cvars, svars, pvars, kvars, ovars, dvars, bvars, rvars>>

nons == <<qvars, cvars, wvars, pvars, kvars, ovars, dvars, bvars, rvars>>

nonp == <<qvars, cvars, wvars, svars, kvars, ovars, dvars, bvars, rvars>>

nonk == <<qvars, cvars, wvars, svars, pvars, ovars, dvars, bvars, rvars>>

nono == <<qvars, cvars, wvars, svars, pvars, kvars, dvars, bvars, rvars>>

nond == <<qvars, cvars, wvars, svars, pvars, kvars, ovars, bvars, rvars>>

nonb == <<qvars, cvars, wvars, svars, pvars, kvars, ovars, dvars, rvars>>

nonr == <<qvars, cvars, wvars, svars, pvars, kvars, ovars, dvars, bvars>>

-----------------------------------------------------------------------------
(* Generic helpers *)

Min(a, b) == IF a < b THEN a ELSE b

Max(a, b) == IF a > b THEN a ELSE b

RECURSIVE SumSizes(_)
SumSizes(s) == IF s = <<>> THEN 0 ELSE Head(s).size + SumSizes(Tail(s))

-----------------------------------------------------------------------------
(***************************************************************************)
(* Frame header codec: wire::encode_header / wire::decode_header           *)
(***************************************************************************)

kProtocolMagic == 1146438484

kProtocolVersion == 1

kHeaderLen == 16

kMaxFramePayload == 64 * 1024

\* An unsigned 32-bit (16-bit) value is the tuple of its 4 (2) bytes, most
\* significant first, so that the whole range 0 .. 2^32 - 1 is covered.
U32Of(n) == <<(n \div 16777216) % 256, (n \div 65536) % 256, (n \div 256) % 256, n % 256>>

U16Of(n) == <<(n \div 256) % 256, n % 256>>

U32Max == <<255, 255, 255, 255>>

\* a >= b on unsigned 32-bit values.
U32Ge(a, b) == a = b \/ \E i \in 1..4 : a[i] > b[i] /\ \A j \in 1..(i - 1) : a[j] = b[j]

\* a > b on unsigned 32-bit values.
U32Gt(a, b) ==
  \E i \in 1..4 : a[i] > b[i] /\ \A j \in 1..(i - 1) : a[j] = b[j]

\* The value of a 32-bit word below 2^31 as a number.
U32Val(a) == a[1] * 16777216 + a[2] * 65536 + a[3] * 256 + a[4]

bswap16(x) == <<x[2], x[1]>>

bswap32(x) == <<x[4], x[3], x[2], x[1]>>

\* A ntohl that leaves the value in host order.
ntohl_host_order(x, le) == x

\* htonl/htons/ntohl/ntohs: a byte swap on a little-endian host, nothing on a
\* big-endian one.
htonl(x, le) == IF le THEN bswap32(x) ELSE x

\* A htons that leaves the value in host order.
htons_host_order(x, le) == x

htons(x, le) == IF le THEN bswap16(x) ELSE x

ntohl(x, le) == IF le THEN bswap32(x) ELSE x

ntohs(x, le) == IF le THEN bswap16(x) ELSE x

\* memcpy(out, &v, 4) and memcpy(out, &v, 2): the object representation of v,
\* least significant byte first on a little-endian host.
MemOut32(v, le) == IF le THEN <<v[4], v[3], v[2], v[1]>> ELSE v

MemOut16(v, le) == IF le THEN <<v[2], v[1]>> ELSE v

\* memcpy(&v, in + off, 4) and memcpy(&v, in + off, 2); off counts from 0.
MemIn32(in, off, le) ==
  IF le THEN <<in[off + 4], in[off + 3], in[off + 2], in[off + 1]>>
        ELSE <<in[off + 1], in[off + 2], in[off + 3], in[off + 4]>>

MemIn16(in, off, le) ==
  IF le THEN <<in[off + 2], in[off + 1]>> ELSE <<in[off + 1], in[off + 2]>>

FrameHeader(magic, version, header_len, payload_len, flags) ==
  [magic |-> magic, version |-> version, header_len |-> header_len,
   payload_len |-> payload_len, flags |-> flags]

encode_header(h, le) ==
  MemOut32(htonl(h.magic, le), le) \o MemOut16(htons(h.version, le), le)
    \o MemOut16(htons(h.header_len, le), le) \o MemOut32(htonl(h.payload_len, le), le)
    \o MemOut32(htonl(h.flags, le), le)

StatusOf(code, msg) == [ok |-> FALSE, code |-> code, msg |-> msg]

decode_header(in, le) ==
  LET h == FrameHeader(ntohl(MemIn32(in, 0, le), le), ntohs(MemIn16(in, 4, le), le),
                       ntohs(MemIn16(in, 6, le), le), ntohl(MemIn32(in, 8, le), le),
                       ntohl(MemIn32(in, 12, le), le))
  IN IF h.magic # U32Of(kProtocolMagic) THEN StatusOf("kProtocolError", "bad magic")
     ELSE IF h.version # U16Of(kProtocolVersion) THEN StatusOf("kProtocolError", "unsupported version")
     ELSE IF h.header_len # U16Of(kHeaderLen) THEN StatusOf("kProtocolError", "bad header_len")
     ELSE IF U32Gt(h.payload_len, U32Of(kMaxFramePayload))
       THEN StatusOf("kProtocolError", "payload too large (frame)")
     ELSE [ok |-> TRUE, code |-> "kOk", value |-> h]

\* decode_header has not been called yet.
CNoResult == [ok |-> FALSE, code |-> "none", msg |-> ""]

\* The header fields explored: the valid values, their neighbours, their
\* byte-swapped images and the extremes of the field's width.
CMagics ==
  {U32Of(kProtocolMagic), U32Of(0), bswap32(U32Of(kProtocolMagic)), U32Of(kProtocolMagic + 1)}

CVersions == {U16Of(kProtocolVersion), U16Of(0), bswap16(U16Of(kProtocolVersion)), U16Of(2)}

CHeaderLens == {U16Of(kHeaderLen), U16Of(0), bswap16(U16Of(kHeaderLen)), U16Of(kHeaderLen + 1)}

CPayloadLens ==
  {U32Of(0), U32Of(1), U32Of(255), U32Of(256), U32Of(kMaxFramePayload - 1),
   U32Of(kMaxFramePayload), U32Of(kMaxFramePayload + 1), bswap32(U32Of(1)), U32Max}

CFlags == {U32Of(0), U32Of(1), U32Of(16), <<1, 2, 3, 4>>, <<128, 0, 0, 255>>, U32Max}

CHeaders ==
  [magic : CMagics, version : CVersions, header_len : CHeaderLens,
   payload_len : CPayloadLens, flags : CFlags]

CInit ==
  /\ c_h \in CHeaders
  /\ c_encLE \in BOOLEAN
  /\ c_decLE \in BOOLEAN
  /\ c_out = <<>>
  /\ c_dec = CNoResult

\* The codec at rest, for the specifications of the other components.
CIdle ==
  /\ c_h = FrameHeader(U32Of(0), U16Of(0), U16Of(0), U32Of(0), U32Of(0))
  /\ c_encLE = TRUE
  /\ c_decLE = TRUE
  /\ c_out = <<>>
  /\ c_dec = CNoResult

CEncode ==
  /\ c_out = <<>>
  /\ c_out' = encode_header(c_h, c_encLE)
  /\ UNCHANGED <<c_h, c_encLE, c_decLE, c_dec>>
  /\ UNCHANGED nonc

CDecode ==
  /\ c_out # <<>>
  /\ c_dec = CNoResult
  /\ c_dec' = decode_header(c_out, c_decLE)
  /\ UNCHANGED <<c_h, c_encLE, c_decLE, c_out>>
  /\ UNCHANGED nonc

CNext == CEncode \/ CDecode

-----------------------------------------------------------------------------
(***************************************************************************)
(* Framing over a stream socket: write_all, read_exact, write_frame,       *)
(* read_frame.  A byte string is kept as a sequence of runs [n, b] (n      *)
(* copies of byte b, neighbouring runs of different bytes), so that a      *)
(* payload of 65536 bytes is held exactly.                                 *)
(***************************************************************************)

\* Bounds: frames the writing end starts, read_frame calls the reader makes.
MaxFrames == 2

MaxReads == 3

Run(n, b) == <<[n |-> n, b |-> b]>>

RECURSIVE BLen(_)
BLen(s) == IF s = <<>> THEN 0 ELSE Head(s).n + BLen(Tail(s))

BCat(s, t) ==
  IF s = <<>> THEN t
  ELSE IF t = <<>> THEN s
  ELSE IF s[Len(s)].b = t[1].b
    THEN SubSeq(s, 1, Len(s) - 1) \o Run(s[Len(s)].n + t[1].n, t[1].b) \o Tail(t)
  ELSE s \o t

RECURSIVE BTake(_, _)
BTake(s, k) ==
  IF k = 0 \/ s = <<>> THEN <<>>
  ELSE IF Head(s).n <= k THEN <<Head(s)>> \o BTake(Tail(s), k - Head(s).n)
  ELSE Run(k, Head(s).b)

RECURSIVE BDrop(_, _)
BDrop(s, k) ==
  IF k = 0 \/ s = <<>> THEN s
  ELSE IF Head(s).n <= k THEN BDrop(Tail(s), k - Head(s).n)
  ELSE Run(Head(s).n - k, Head(s).b) \o Tail(s)

\* A buffer given byte by byte, and back.
RECURSIVE BOfBytes(_)
BOfBytes(bytes) ==
  IF bytes = <<>> THEN <<>> ELSE BCat(Run(1, Head(bytes)), BOfBytes(Tail(bytes)))

RECURSIVE BBytes(_)
BBytes(s) ==
  IF s = <<>> THEN <<>>
  ELSE <<Head(s).b>> \o BBytes(IF Head(s).n = 1 THEN Tail(s) ELSE Run(Head(s).n - 1, Head(s).b) \o Tail(s))

\* The messages handed to write_frame: empty, "ab", 65536 times 'x', and one
\* byte more than a frame may carry.
WMsgs == {<<>>, Run(1, 97) \o Run(1, 98), Run(kMaxFramePayload, 120), Run(kMaxFramePayload + 1, 121)}

WFlags == {U32Of(0), <<128, 0, 0, 255>>}

\* Headers a peer that does not use write_frame puts on the stream.
WRawHeaders ==
  {FrameHeader(U32Of(0), U16Of(0), U16Of(0), U32Of(0), U32Of(0)),
   FrameHeader(bswap32(U32Of(kProtocolMagic)), U16Of(kProtocolVersion), U16Of(kHeaderLen), U32Of(0), U32Of(0)),
   FrameHeader(U32Of(kProtocolMagic), U16Of(2), U16Of(kHeaderLen), U32Of(2), U32Of(0)),
   FrameHeader(U32Of(kProtocolMagic), U16Of(kProtocolVersion), U16Of(kHeaderLen + 1), U32Of(2), U32Of(0)),
   FrameHeader(U32Of(kProtocolMagic), U16Of(kProtocolVersion), U16Of(kHeaderLen), U32Of(kMaxFramePayload + 1), U32Of(0)),
   FrameHeader(U32Of(kProtocolMagic), U16Of(kProtocolVersion), U16Of(kHeaderLen), U32Max, U32Max),
   FrameHeader(U32Of(kProtocolMagic), U16Of(kProtocolVersion), U16Of(kHeaderLen), U32Of(kMaxFramePayload), U32Max),
   FrameHeader(U32Of(kProtocolMagic), U16Of(kProtocolVersion), U16Of(kHeaderLen), U32Of(2), U32Of(1))}

\* The bytes that follow a raw header.
WRawTails == {Run(2, 122)}

\* What one send() or recv() asked for n > 0 bytes may transfer: the whole or
\* all but one byte, and for a short buffer also half.
WChunks(n) ==
  {k \in {n - 1, n} : 1 <= k} \cup (IF 1 < n /\ n <= kHeaderLen THEN {(n + 1) \div 2} ELSE {})

WNoLog == <<>>

WInit ==
  /\ w_raw \in BOOLEAN
  /\ w_wLE \in (IF w_raw THEN {FALSE} ELSE BOOLEAN)
  /\ w_rLE \in BOOLEAN
  /\ w_wpc = "idle"
  /\ w_wbuf = <<>>
  /\ w_wmsg = <<>>
  /\ w_calls = 0
  /\ w_sent = <<>>
  /\ w_wres = "none"
  /\ w_stream = <<>>
  /\ w_wclosed = FALSE
  /\ w_rpc = "idle"
  /\ w_rneed = 0
  /\ w_rgot = <<>>
  /\ w_rused = 0
  /\ w_rhdr = <<>>
  /\ w_rlog = WNoLog

\* The stream at rest, for the specifications of the other components.
WIdle ==
  /\ w_wLE = TRUE
  /\ w_rLE = TRUE
  /\ w_wpc = "idle"
  /\ w_wbuf = <<>>
  /\ w_wmsg = <<>>
  /\ w_calls = 0
  /\ w_sent = <<>>
  /\ w_wres = "none"
  /\ w_stream = <<>>
  /\ w_wclosed = FALSE
  /\ w_raw = FALSE
  /\ w_rpc = "idle"
  /\ w_rneed = 0
  /\ w_rgot = <<>>
  /\ w_rused = 0
  /\ w_rhdr = <<>>
  /\ w_rlog = WNoLog

\* write_frame up to its first send(): the size check and the header.
WWriteFrame(msg, flags) ==
  /\ w_wpc = "idle"
  /\ ~w_raw
  /\ ~w_wclosed
  /\ w_calls < MaxFrames
  /\ w_calls' = w_calls + 1
  /\ IF BLen(msg) > kMaxFramePayload
       THEN /\ w_wres' = "kInvalidArgument"
            /\ UNCHANGED <<w_wpc, w_wbuf, w_wmsg>>
       ELSE /\ w_wpc' = "hdr"
            /\ w_wbuf' = BOfBytes(encode_header(
                           FrameHeader(U32Of(kProtocolMagic), U16Of(kProtocolVersion),
                                       U16Of(kHeaderLen), U32Of(BLen(msg)), flags), w_wLE))
            /\ w_wmsg' = msg
            /\ w_wres' = "busy"
  /\ UNCHANGED <<w_wLE, w_rLE, w_sent, w_stream, w_wclosed, w_raw, w_rpc, w_rneed, w_rgot,
                 w_rused, w_rhdr, w_rlog>>
  /\ UNCHANGED nonw

\* One send() of write_all that transfers k bytes; when the header is out
\* write_frame goes on to the payload, when all is out it returns Ok.
WSend(k) ==
  /\ w_wpc \in {"hdr", "payload"}
  /\ k \in WChunks(BLen(w_wbuf))
  /\ w_stream' = BCat(w_stream, BTake(w_wbuf, k))
  /\ LET rest == BDrop(w_wbuf, k)
     IN IF rest # <<>>
          THEN /\ w_wbuf' = rest
               /\ UNCHANGED <<w_wpc, w_wmsg, w_sent, w_wres>>
          ELSE IF w_wpc = "hdr" /\ w_wmsg # <<>>
            THEN /\ w_wpc' = "payload"
                 /\ w_wbuf' = w_wmsg
                 /\ UNCHANGED <<w_wmsg, w_sent, w_wres>>
            ELSE /\ w_wpc' = "idle"
                 /\ w_wbuf' = <<>>
                 /\ w_wmsg' = <<>>
                 /\ w_sent' = Append(w_sent, w_wmsg)
                 /\ w_wres' = "kOk"
  /\ UNCHANGED <<w_wLE, w_rLE, w_calls, w_wclosed, w_raw, w_rpc, w_rneed, w_rgot, w_rused,
                 w_rhdr, w_rlog>>
  /\ UNCHANGED nonw

\* send() fails with EINTR: write_all retries with p and n as they are.
WSendEintr ==
  /\ w_wpc \in {"hdr", "payload"}
  /\ UNCHANGED wvars
  /\ UNCHANGED nonw

\* The writing end closes its socket between two frames.
WCloseWriter ==
  /\ w_wpc = "idle"
  /\ ~w_wclosed
  /\ w_wclosed' = TRUE
  /\ UNCHANGED <<w_wLE, w_rLE, w_wpc, w_wbuf, w_wmsg, w_calls, w_sent, w_wres, w_stream, w_raw,
                 w_rpc, w_rneed, w_rgot, w_rused, w_rhdr, w_rlog>>
  /\ UNCHANGED nonw

\* A peer writes 16 header bytes of its own making and some bytes after them.
WRawSend(h, tail) ==
  /\ w_wpc = "idle"
  /\ ~w_wclosed
  /\ w_calls < MaxFrames
  /\ w_raw
  /\ w_calls' = w_calls + 1
  /\ w_stream' = BCat(w_stream,
                      BCat(BOfBytes(h.magic \o h.version \o h.header_len \o h.payload_len \o h.flags),
                           tail))
  /\ UNCHANGED <<w_wLE, w_rLE, w_wpc, w_wbuf, w_wmsg, w_sent, w_wres, w_wclosed, w_raw, w_rpc,
                 w_rneed, w_rgot, w_rused, w_rhdr, w_rlog>>
  /\ UNCHANGED nonw

\* read_frame up to its first recv().
RReadFrame ==
  /\ w_rpc = "idle"
  /\ Len(w_rlog) < MaxReads
  /\ w_rpc' = "hdr"
  /\ w_rneed' = kHeaderLen
  /\ w_rgot' = <<>>
  /\ w_rused' = 0
  /\ w_rhdr' = <<>>
  /\ UNCHANGED <<w_wLE, w_rLE, w_wpc, w_wbuf, w_wmsg, w_calls, w_sent, w_wres, w_stream,
                 w_wclosed, w_raw, w_rlog>>
  /\ UNCHANGED nonw

\* read_frame returns.
RReturn(code, payload, used) ==
  /\ w_rlog' = Append(w_rlog, [code |-> code, payload |-> payload, used |-> used])
  /\ w_rpc' = "idle"
  /\ w_rneed' = 0
  /\ w_rgot' = <<>>
  /\ w_rused' = used

\* One recv() of read_exact that transfers k bytes; with the header complete
\* read_frame decodes it and returns the error or goes on to the payload, with
\* the payload complete it returns the message.
RRecv(k) ==
  /\ w_rpc \in {"hdr", "payload"}
  /\ w_stream # <<>>
  /\ k \in WChunks(Min(w_rneed, BLen(w_stream)))
  /\ w_stream' = BDrop(w_stream, k)
  /\ LET got == BCat(w_rgot, BTake(w_stream, k))
         used == w_rused + k
     IN IF w_rneed - k > 0
          THEN /\ w_rgot' = got
               /\ w_rneed' = w_rneed - k
               /\ w_rused' = used
               /\ UNCHANGED <<w_rpc, w_rhdr, w_rlog>>
          ELSE IF w_rpc = "hdr"
            THEN LET decoded == decode_header(BBytes(got), w_rLE)
                 IN /\ w_rhdr' = BBytes(got)
                    /\ IF ~decoded.ok THEN RReturn(decoded.code, <<>>, used)
                       ELSE IF decoded.value.payload_len = U32Of(0) THEN RReturn("kOk", <<>>, used)
                       ELSE /\ w_rpc' = "payload"
                            /\ w_rneed' = U32Val(decoded.value.payload_len)
                            /\ w_rgot' = <<>>
                            /\ w_rused' = used
                            /\ UNCHANGED w_rlog
            ELSE /\ RReturn("kOk", got, used)
                 /\ UNCHANGED w_rhdr
  /\ UNCHANGED <<w_wLE, w_rLE, w_wpc, w_wbuf, w_wmsg, w_calls, w_sent, w_wres, w_wclosed, w_raw>>
  /\ UNCHANGED nonw

\* recv() fails with EINTR: read_exact retries with p and n as they are.
RRecvEintr ==
  /\ w_rpc \in {"hdr", "payload"}
  /\ UNCHANGED wvars
  /\ UNCHANGED nonw

\* recv() returns 0: the peer has closed and nothing is left to read.
RRecvEof ==
  /\ w_rpc \in {"hdr", "payload"}
  /\ w_stream = <<>>
  /\ w_wclosed
  /\ RReturn("kClosed", <<>>, w_rused)
  /\ UNCHANGED <<w_wLE, w_rLE, w_wpc, w_wbuf, w_wmsg, w_calls, w_sent, w_wres, w_stream,
                 w_wclosed, w_raw, w_rhdr>>
  /\ UNCHANGED nonw

WNext ==
  \/ \E msg \in WMsgs, flags \in WFlags : WWriteFrame(msg, flags)
  \/ \E k \in WChunks(BLen(w_wbuf)) : WSend(k)
  \/ WSendEintr
  \/ WCloseWriter
  \/ \E h \in WRawHeaders, tail \in WRawTails : WRawSend(h, tail)
  \/ RReadFrame
  \/ \E k \in WChunks(Min(w_rneed, BLen(w_stream))) : RRecv(k)
  \/ RRecvEintr
  \/ RRecvEof

-----------------------------------------------------------------------------
(***************************************************************************)
(* One direction of a shared-memory connection: the ring of ShmPipe::send  *)
(* and ShmPipe::recv, one sender and one receiver.  Each access to the     *)
(* shared region and each semaphore operation is a step of its own; the    *)
(* memcpy into a slot and the copy out of it take two steps each.          *)
(***************************************************************************)

kSlotPayloadMax == 64 * 1024

kSlotCount == 64

\* Bound: the number of send calls.
MaxSends == 66

\* An increment that goes from 2^32 - 1 to 1.
U32Inc_skip_zero(a) ==
  IF a[4] < 255 THEN <<a[1], a[2], a[3], a[4] + 1>>
  ELSE IF a[3] < 255 THEN <<a[1], a[2], a[3] + 1, 0>>
  ELSE IF a[2] < 255 THEN <<a[1], a[2] + 1, 0, 0>>
  ELSE IF a[1] < 255 THEN <<a[1] + 1, 0, 0, 0>>
  ELSE <<0, 0, 0, 1>>

\* head + 1 and tail + 1 on std::uint32_t.
U32Inc(a) ==
  IF a[4] < 255 THEN <<a[1], a[2], a[3], a[4] + 1>>
  ELSE IF a[3] < 255 THEN <<a[1], a[2], a[3] + 1, 0>>
  ELSE IF a[2] < 255 THEN <<a[1], a[2] + 1, 0, 0>>
  ELSE <<(a[1] + 1) % 256, 0, 0, 0>>

\* An index that wraps after half the ring.
SlotIdx_half(a) == a[4] % 32

\* head % kSlotCount: kSlotCount divides 256, so the low byte decides.
SlotIdx(a) == a[4] % kSlotCount

\* The message of the i-th send call: lengths 65536, 0 and 2 in turn, filled
\* with a byte that differs between calls that use the same slot.
ShmLengths == <<kSlotPayloadMax, 0, 2>>

ShmMsg(i) == LET n == ShmLengths[(i % 3) + 1] IN IF n = 0 THEN <<>> ELSE Run(n, 1 + (i % 199))

ShmTimeouts == {0, 1}

\* The counters of a fresh region, and of one that has carried 2^32 - 2 empty
\* messages.
ShmStarts == {U32Of(0), <<255, 255, 255, 254>>}

\* memcpy(dst, src, n) into a slot's data: the first n bytes of dst replaced.
MemcpyInto(dst, k, src) == BCat(BCat(BTake(dst, k), src), BDrop(dst, k + BLen(src)))

\* The part of a copy of n bytes done by its first step.
FirstPart(n) == (n + 1) \div 2

SInit ==
  /\ s_head \in ShmStarts
  /\ s_tail = s_head
  /\ s_slots = [i \in 0..(kSlotCount - 1) |-> [len |-> 0, data |-> Run(kSlotPayloadMax, 0)]]
  /\ s_spaces = kSlotCount
  /\ s_items = 0
  /\ s_spc = "idle"
  /\ s_smsg = <<>>
  /\ s_stimeout = 0
  /\ s_shead = U32Of(0)
  /\ s_calls = 0
  /\ s_sres = "none"
  /\ s_rpc = "idle"
  /\ s_rtimeout = 0
  /\ s_rtail = U32Of(0)
  /\ s_rlen = 0
  /\ s_rbuf = <<>>
  /\ s_rres = "none"
  /\ s_sent = <<>>
  /\ s_recvd = <<>>

\* The ring at rest, for the specifications of the other components.
SIdle ==
  /\ s_head = U32Of(0)
  /\ s_tail = U32Of(0)
  /\ s_slots = <<>>
  /\ s_spaces = 0
  /\ s_items = 0
  /\ s_spc = "idle"
  /\ s_smsg = <<>>
  /\ s_stimeout = 0
  /\ s_shead = U32Of(0)
  /\ s_calls = 0
  /\ s_sres = "none"
  /\ s_rpc = "idle"
  /\ s_rtimeout = 0
  /\ s_rtail = U32Of(0)
  /\ s_rlen = 0
  /\ s_rbuf = <<>>
  /\ s_rres = "none"
  /\ s_sent = <<>>
  /\ s_recvd = <<>>

\* A send that also rejects a message of exactly kSlotPayloadMax bytes.
ShmSendMsg_reject_max(msg, timeout) ==
  /\ s_spc = "idle"
  /\ s_calls < MaxSends
  /\ s_calls' = s_calls + 1
  /\ IF BLen(msg) >= kSlotPayloadMax
       THEN /\ s_sres' = "kInvalidArgument"
            /\ UNCHANGED <<s_spc, s_smsg, s_stimeout>>
       ELSE /\ s_spc' = "wait"
            /\ s_smsg' = msg
            /\ s_stimeout' = timeout
            /\ UNCHANGED s_sres
  /\ UNCHANGED <<s_head, s_tail, s_slots, s_spaces, s_items, s_shead, s_rpc, s_rtimeout, s_rtail,
                 s_rlen, s_rbuf, s_rres, s_sent, s_recvd>>
  /\ UNCHANGED nons

\* ShmPipe::send(msg, opt) up to sem_wait_opt: the size check.
ShmSendMsg(msg, timeout) ==
  /\ s_spc = "idle"
  /\ s_calls < MaxSends
  /\ s_calls' = s_calls + 1
  /\ IF BLen(msg) > kSlotPayloadMax
       THEN /\ s_sres' = "kInvalidArgument"
            /\ UNCHANGED <<s_spc, s_smsg, s_stimeout>>
       ELSE /\ s_spc' = "wait"
            /\ s_smsg' = msg
            /\ s_stimeout' = timeout
            /\ UNCHANGED s_sres
  /\ UNCHANGED <<s_head, s_tail, s_slots, s_spaces, s_items, s_shead, s_rpc, s_rtimeout, s_rtail,
                 s_rlen, s_rbuf, s_rres, s_sent, s_recvd>>
  /\ UNCHANGED nons

\* The send call of a sender that sends ShmMsg(1), ShmMsg(2), ... in turn.
ShmSend(timeout) == ShmSendMsg(ShmMsg(s_calls + 1), timeout)

\* ShmSendWait that goes on without taking a space.
ShmSendWait_no_take ==
  /\ s_spc = "wait"
  /\ s_spc' = "len"
  /\ s_stimeout' = 0
  /\ UNCHANGED <<s_head, s_tail, s_slots, s_spaces, s_items, s_smsg, s_shead, s_calls, s_sres,
                 s_rpc, s_rtimeout, s_rtail, s_rlen, s_rbuf, s_rres, s_sent, s_recvd>>
  /\ UNCHANGED nons

\* sem_wait_opt(spaces) takes a space.
ShmSendWait ==
  /\ s_spc = "wait"
  /\ s_spaces > 0
  /\ s_spaces' = s_spaces - 1
  /\ s_spc' = "len"
  /\ s_stimeout' = 0
  /\ UNCHANGED <<s_head, s_tail, s_slots, s_items, s_smsg, s_shead, s_calls, s_sres,
                 s_rpc, s_rtimeout, s_rtail, s_rlen, s_rbuf, s_rres, s_sent, s_recvd>>
  /\ UNCHANGED nons

\* sem_wait_opt(spaces, timeout) with timeout > 0 runs out of time.
ShmSendTimeout ==
  /\ s_spc = "wait"
  /\ s_stimeout > 0
  /\ s_spaces = 0
  /\ s_spc' = "idle"
  /\ s_sres' = "kTimeout"
  /\ s_stimeout' = 0
  /\ UNCHANGED <<s_head, s_tail, s_slots, s_spaces, s_items, s_smsg, s_shead, s_calls,
                 s_rpc, s_rtimeout, s_rtail, s_rlen, s_rbuf, s_rres, s_sent, s_recvd>>
  /\ UNCHANGED nons

\* head is loaded and the slot's len written.
ShmSendLen ==
  /\ s_spc = "len"
  /\ s_shead' = s_head
  /\ s_slots' = [s_slots EXCEPT ![SlotIdx(s_head)].len = BLen(s_smsg)]
  /\ s_spc' = IF BLen(s_smsg) # 0 THEN "copy1" ELSE "store"
  /\ UNCHANGED <<s_head, s_tail, s_spaces, s_items, s_smsg, s_stimeout, s_calls, s_sres, s_rpc,
                 s_rtimeout, s_rtail, s_rlen, s_rbuf, s_rres, s_sent, s_recvd>>
  /\ UNCHANGED nons

\* memcpy(tx->slots[idx].data, msg.data(), msg.size()), first and second part.
ShmSendCopy ==
  /\ s_spc \in {"copy1", "copy2"}
  /\ LET idx == SlotIdx(s_shead)
         k == FirstPart(BLen(s_smsg))
     IN IF s_spc = "copy1"
          THEN /\ s_slots' = [s_slots EXCEPT ![idx].data = MemcpyInto(@, 0, BTake(s_smsg, k))]
               /\ s_spc' = "copy2"
          ELSE /\ s_slots' = [s_slots EXCEPT ![idx].data = MemcpyInto(@, k, BDrop(s_smsg, k))]
               /\ s_spc' = "store"
  /\ UNCHANGED <<s_head, s_tail, s_spaces, s_items, s_smsg, s_stimeout, s_shead, s_calls, s_sres,
                 s_rpc, s_rtimeout, s_rtail, s_rlen, s_rbuf, s_rres, s_sent, s_recvd>>
  /\ UNCHANGED nons

\* tx->meta.head.store(head + 1).
ShmSendStore ==
  /\ s_spc = "store"
  /\ s_head' = U32Inc(s_shead)
  /\ s_spc' = "post"
  /\ UNCHANGED <<s_tail, s_slots, s_spaces, s_items, s_smsg, s_stimeout, s_shead, s_calls, s_sres,
                 s_rpc, s_rtimeout, s_rtail, s_rlen, s_rbuf, s_rres, s_sent, s_recvd>>
  /\ UNCHANGED nons

\* sem_post(items); send returns Ok.
ShmSendPost ==
  /\ s_spc = "post"
  /\ s_items' = s_items + 1
  /\ s_spc' = "idle"
  /\ s_sres' = "kOk"
  /\ s_sent' = Append(s_sent, s_smsg)
  /\ UNCHANGED <<s_head, s_tail, s_slots, s_spaces, s_smsg, s_stimeout, s_shead, s_calls, s_rpc,
                 s_rtimeout, s_rtail, s_rlen, s_rbuf, s_rres, s_recvd>>
  /\ UNCHANGED nons

\* ShmPipe::recv up to sem_wait_opt.
ShmRecv(timeout) ==
  /\ s_rpc = "idle"
  /\ s_rpc' = "wait"
  /\ s_rtimeout' = timeout
  /\ UNCHANGED <<s_head, s_tail, s_slots, s_spaces, s_items, s_spc, s_smsg, s_stimeout, s_shead,
                 s_calls, s_sres, s_rtail, s_rlen, s_rbuf, s_rres, s_sent, s_recvd>>
  /\ UNCHANGED nons

\* ShmRecvWait that goes on without taking an item.
ShmRecvWait_no_take ==
  /\ s_rpc = "wait"
  /\ s_rpc' = "len"
  /\ s_rtimeout' = 0
  /\ UNCHANGED <<s_head, s_tail, s_slots, s_spaces, s_items, s_spc, s_smsg, s_stimeout, s_shead,
                 s_calls, s_sres, s_rtail, s_rlen, s_rbuf, s_rres, s_sent, s_recvd>>
  /\ UNCHANGED nons

\* sem_wait_opt(items) takes an item.
ShmRecvWait ==
  /\ s_rpc = "wait"
  /\ s_items > 0
  /\ s_items' = s_items - 1
  /\ s_rpc' = "len"
  /\ s_rtimeout' = 0
  /\ UNCHANGED <<s_head, s_tail, s_slots, s_spaces, s_spc, s_smsg, s_stimeout, s_shead, s_calls,
                 s_sres, s_rtail, s_rlen, s_rbuf, s_rres, s_sent, s_recvd>>
  /\ UNCHANGED nons

\* sem_wait_opt(items, timeout) with timeout > 0 runs out of time.
ShmRecvTimeout ==
  /\ s_rpc = "wait"
  /\ s_rtimeout > 0
  /\ s_items = 0
  /\ s_rpc' = "idle"
  /\ s_rres' = "kTimeout"
  /\ s_rtimeout' = 0
  /\ UNCHANGED <<s_head, s_tail, s_slots, s_spaces, s_items, s_spc, s_smsg, s_stimeout, s_shead,
                 s_calls, s_sres, s_rtail, s_rlen, s_rbuf, s_sent, s_recvd>>
  /\ UNCHANGED nons

\* tail is loaded and the slot's len read and checked.
ShmRecvLen ==
  /\ s_rpc = "len"
  /\ s_rtail' = s_tail
  /\ LET len == s_slots[SlotIdx(s_tail)].len
     IN /\ s_rlen' = len
        /\ s_rbuf' = <<>>
        /\ IF len > kSlotPayloadMax
             THEN s_rpc' = "idle" /\ s_rres' = "kProtocolError"
             ELSE s_rpc' = (IF len # 0 THEN "copy1" ELSE "store") /\ UNCHANGED s_rres
  /\ UNCHANGED <<s_head, s_tail, s_slots, s_spaces, s_items, s_spc, s_smsg, s_stimeout, s_shead,
                 s_calls, s_sres, s_rtimeout, s_sent, s_recvd>>
  /\ UNCHANGED nons

\* Message::from_bytes(rx->slots[idx].data, len), first and second part.
ShmRecvCopy ==
  /\ s_rpc \in {"copy1", "copy2"}
  /\ LET data == s_slots[SlotIdx(s_rtail)].data
         k == FirstPart(s_rlen)
     IN IF s_rpc = "copy1"
          THEN /\ s_rbuf' = BTake(data, k)
               /\ s_rpc' = "copy2"
          ELSE /\ s_rbuf' = BCat(s_rbuf, BTake(BDrop(data, k), s_rlen - k))
               /\ s_rpc' = "store"
  /\ UNCHANGED <<s_head, s_tail, s_slots, s_spaces, s_items, s_spc, s_smsg, s_stimeout, s_shead,
                 s_calls, s_sres, s_rtimeout, s_rtail, s_rlen, s_rres, s_sent, s_recvd>>
  /\ UNCHANGED nons

\* rx->meta.tail.store(tail + 1).
ShmRecvStore ==
  /\ s_rpc = "store"
  /\ s_tail' = U32Inc(s_rtail)
  /\ s_rpc' = "post"
  /\ UNCHANGED <<s_head, s_slots, s_spaces, s_items, s_spc, s_smsg, s_stimeout, s_shead, s_calls,
                 s_sres, s_rtimeout, s_rtail, s_rlen, s_rbuf, s_rres, s_sent, s_recvd>>
  /\ UNCHANGED nons

\* sem_post(spaces); recv returns the message.
ShmRecvPost ==
  /\ s_rpc = "post"
  /\ s_spaces' = s_spaces + 1
  /\ s_rpc' = "idle"
  /\ s_rres' = "kOk"
  /\ s_recvd' = Append(s_recvd, s_rbuf)
  /\ UNCHANGED <<s_head, s_tail, s_slots, s_items, s_spc, s_smsg, s_stimeout, s_shead, s_calls,
                 s_sres, s_rtimeout, s_rtail, s_rlen, s_rbuf, s_sent>>
  /\ UNCHANGED nons

SNext ==
  \/ \E timeout \in ShmTimeouts : ShmSend(timeout)
  \/ ShmSendWait
  \/ ShmSendTimeout
  \/ ShmSendLen
  \/ ShmSendCopy
  \/ ShmSendStore
  \/ ShmSendPost
  \/ \E timeout \in ShmTimeouts : ShmRecv(timeout)
  \/ ShmRecvWait
  \/ ShmRecvTimeout
  \/ ShmRecvLen
  \/ ShmRecvCopy
  \/ ShmRecvStore
  \/ ShmRecvPost

-----------------------------------------------------------------------------
(***************************************************************************)
(* ReconnectPipe: the worker thread, two threads calling send/recv and a   *)
(* thread calling close.  Every region under mu_ is one step; set_state is *)
(* two steps, the region under mu_ and the call of the callback after it.  *)
(* A wait on cv_ is a step enabled when its predicate holds: every write   *)
(* to closed_, inner_ and permanently_failed_ is followed by notify_all.   *)
(***************************************************************************)

\* Bound: calls of the dialler.
MaxDials == 2

\* Thread a calls send, with a timeout or without; thread b calls recv without.
PCallers == {"a", "b"}

PThreads == {"w", "x"} \cup PCallers

PMaxAttempts == {0, 2}

PTimeouts(c) == IF c = "a" THEN {0, 1} ELSE {0}

\* What a send/recv on an open inner pipe may return.
PInnerCodes == {"kOk", "kTimeout", "kClosed", "kIoError", "kProtocolError"}

PThread(pc) ==
  [pc |-> pc, next |-> "none", ret |-> "none", snap |-> 0, timeout |-> 0, passed |-> 0]

\* The object after its constructor: set_state(kConnecting) has run and called
\* the callback, the worker has been started.  policy.max_attempts is one of
\* maxes, the dialler fails its first N calls for an N of failNs (-1: it
\* fails or succeeds as it likes), and the threads of one set of absents do
\* not use the object.
PInitWith(maxes, failNs, absents) ==
  /\ p_max \in maxes
  /\ p_failN \in failNs
  /\ p_closed = FALSE
  /\ p_failed = FALSE
  /\ p_state = "kConnecting"
  /\ p_ever = FALSE
  /\ p_lasterr = FALSE
  /\ p_inner = 0
  /\ p_pipes = <<>>
  /\ p_dials = 0
  /\ p_attempts = 0
  /\ p_r = 0
  /\ \E absent \in absents :
       p_thr = [t \in PThreads |->
                 PThread(IF t = "w" THEN "top" ELSE IF t \in absent THEN "absent" ELSE "idle")]
  /\ p_res = [code |-> "none", passed |-> 0]
  /\ p_cb = "kConnecting"

\* The users are two threads that call send/recv, or one such thread and one
\* that calls close.
PInit == PInitWith(PMaxAttempts, {-1}, {{"b"}, {"x"}})

\* No reconnect pipe, for the specifications of the other components.
PIdle ==
  /\ p_max = 0
  /\ p_failN = -1
  /\ p_closed = TRUE
  /\ p_failed = FALSE
  /\ p_state = "kClosed"
  /\ p_ever = FALSE
  /\ p_lasterr = FALSE
  /\ p_inner = 0
  /\ p_pipes = <<>>
  /\ p_dials = 0
  /\ p_attempts = 0
  /\ p_r = 0
  /\ p_thr = [t \in PThreads |-> PThread("done")]
  /\ p_res = [code |-> "none", passed |-> 0]
  /\ p_cb = "none"

\* Thread t moves to pc.
PGo(t, pc) == [p_thr EXCEPT ![t].pc = pc]

\* Thread t calls set_state(next) and goes on at ret afterwards.
PCallSetState(t, next, ret) ==
  [p_thr EXCEPT ![t].pc = "set_state", ![t].next = next, ![t].ret = ret]

\* Thread t returns from set_state.
PSetStateDone(t) ==
  [p_thr EXCEPT ![t].pc = p_thr[t].ret, ![t].next = "none", ![t].ret = "none"]

\* set_state, the region under mu_: nothing to do if the state is next already.
set_state(t) ==
  /\ p_thr[t].pc = "set_state"
  /\ IF p_state = p_thr[t].next
       THEN p_thr' = PSetStateDone(t) /\ UNCHANGED p_state
       ELSE p_thr' = PGo(t, "callback") /\ p_state' = p_thr[t].next
  /\ UNCHANGED <<p_max, p_failN, p_closed, p_failed, p_ever, p_lasterr, p_inner, p_pipes, p_dials,
                 p_attempts, p_r, p_res, p_cb>>
  /\ UNCHANGED nonp

\* set_state, after the region: cb(next, reason).
PCallback(t) ==
  /\ p_thr[t].pc = "callback"
  /\ p_cb' = p_thr[t].next
  /\ p_thr' = PSetStateDone(t)
  /\ UNCHANGED <<p_max, p_failN, p_closed, p_failed, p_state, p_ever, p_lasterr, p_inner, p_pipes,
                 p_dials, p_attempts, p_r, p_res>>
  /\ UNCHANGED nonp

\* worker_loop, top of the outer loop: is_closed().
PWorkerTop ==
  /\ p_thr["w"].pc = "top"
  /\ p_thr' = PGo("w", IF p_closed THEN "done" ELSE "check")
  /\ UNCHANGED <<p_max, p_failN, p_closed, p_failed, p_state, p_ever, p_lasterr, p_inner, p_pipes,
                 p_dials, p_attempts, p_r, p_res, p_cb>>
  /\ UNCHANGED nonp

\* PWorkerCheck without the test of inner_: a connect episode starts although
\* a pipe is installed.
PWorkerCheck_no_inner_test ==
  /\ p_thr["w"].pc = "check"
  /\ IF p_failed THEN p_thr' = PGo("w", "done") /\ UNCHANGED p_attempts
     ELSE /\ p_thr' = PCallSetState("w", IF p_ever THEN "kReconnecting" ELSE "kConnecting", "loop")
          /\ p_attempts' = 0
  /\ UNCHANGED <<p_max, p_failN, p_closed, p_failed, p_state, p_ever, p_lasterr, p_inner, p_pipes,
                 p_dials, p_r, p_res, p_cb>>
  /\ UNCHANGED nonp

\* worker_loop: with a pipe installed wait for it to go, with permanent failure
\* latched return, else start a connect episode with set_state(kConnecting or
\* kReconnecting) and attempts = 0.
PWorkerCheck ==
  /\ p_thr["w"].pc = "check"
  /\ IF p_inner # 0 THEN p_thr' = PGo("w", "waitgone") /\ UNCHANGED p_attempts
     ELSE IF p_failed THEN p_thr' = PGo("w", "done") /\ UNCHANGED p_attempts
     ELSE /\ p_thr' = PCallSetState("w", IF p_ever THEN "kReconnecting" ELSE "kConnecting", "loop")
          /\ p_attempts' = 0
  /\ UNCHANGED <<p_max, p_failN, p_closed, p_failed, p_state, p_ever, p_lasterr, p_inner, p_pipes,
                 p_dials, p_r, p_res, p_cb>>
  /\ UNCHANGED nonp

\* worker_loop: cv_.wait(lk, closed_ || !inner_) returns.
PWorkerWaitGone ==
  /\ p_thr["w"].pc = "waitgone"
  /\ p_closed \/ p_inner = 0
  /\ p_thr' = PGo("w", "top")
  /\ UNCHANGED <<p_max, p_failN, p_closed, p_failed, p_state, p_ever, p_lasterr, p_inner, p_pipes,
                 p_dials, p_attempts, p_r, p_res, p_cb>>
  /\ UNCHANGED nonp

\* PWorkerLoop whose max_attempts test allows one attempt more.
PWorkerLoop_one_more ==
  /\ p_thr["w"].pc = "loop"
  /\ p_thr' = PGo("w", IF p_closed THEN "done"
                       ELSE IF p_max # 0 /\ p_attempts > p_max THEN "latch" ELSE "dial")
  /\ UNCHANGED <<p_max, p_failN, p_closed, p_failed, p_state, p_ever, p_lasterr, p_inner, p_pipes,
                 p_dials, p_attempts, p_r, p_res, p_cb>>
  /\ UNCHANGED nonp

\* worker_loop, top of the inner loop: is_closed() and the max_attempts test.
PWorkerLoop ==
  /\ p_thr["w"].pc = "loop"
  /\ p_thr' = PGo("w", IF p_closed THEN "done"
                       ELSE IF p_max # 0 /\ p_attempts >= p_max THEN "latch" ELSE "dial")
  /\ UNCHANGED <<p_max, p_failN, p_closed, p_failed, p_state, p_ever, p_lasterr, p_inner, p_pipes,
                 p_dials, p_attempts, p_r, p_res, p_cb>>
  /\ UNCHANGED nonp

\* worker_loop: attempts exhausted, permanently_failed_ is latched and
\* set_state(kDisconnected) called.
PWorkerLatch ==
  /\ p_thr["w"].pc = "latch"
  /\ p_failed' = TRUE
  /\ p_thr' = PCallSetState("w", "kDisconnected", "done")
  /\ UNCHANGED <<p_max, p_failN, p_closed, p_state, p_ever, p_lasterr, p_inner, p_pipes, p_dials,
                 p_attempts, p_r, p_res, p_cb>>
  /\ UNCHANGED nonp

\* dial_once_() returns a new pipe (ok) or an error; after an error ++attempts.
PDialReturn(ok) ==
  /\ p_thr["w"].pc = "dial"
  /\ p_dials < MaxDials
  /\ p_failN # -1 => (ok <=> p_dials >= p_failN)
  /\ p_dials' = p_dials + 1
  /\ IF ok
       THEN /\ p_pipes' = Append(p_pipes, TRUE)
            /\ p_r' = Len(p_pipes) + 1
            /\ p_thr' = PGo("w", "install")
            /\ UNCHANGED p_attempts
       ELSE /\ p_attempts' = p_attempts + 1
            /\ p_thr' = PGo("w", "seterr")
            /\ UNCHANGED <<p_pipes, p_r>>
  /\ UNCHANGED <<p_max, p_failN, p_closed, p_failed, p_state, p_ever, p_lasterr, p_inner, p_res,
                 p_cb>>
  /\ UNCHANGED nonp

\* worker_loop after a successful dial: the pipe is installed under mu_, then
\* set_state(kConnected) is called and the outer loop resumed.
PWorkerInstall ==
  /\ p_thr["w"].pc = "install"
  /\ p_inner' = p_r
  /\ p_r' = 0
  /\ p_ever' = TRUE
  /\ p_lasterr' = FALSE
  /\ p_thr' = PCallSetState("w", "kConnected", "top")
  /\ UNCHANGED <<p_max, p_failN, p_closed, p_failed, p_state, p_pipes, p_dials, p_attempts,
                 p_res, p_cb>>
  /\ UNCHANGED nonp

\* worker_loop after a failed dial: last_error_ is set under mu_.
PWorkerSetErr ==
  /\ p_thr["w"].pc = "seterr"
  /\ p_lasterr' = TRUE
  /\ p_thr' = PGo("w", "backoff")
  /\ UNCHANGED <<p_max, p_failN, p_closed, p_failed, p_state, p_ever, p_inner, p_pipes, p_dials,
                 p_attempts, p_r, p_res, p_cb>>
  /\ UNCHANGED nonp

\* PWorkerBackoff that returns from worker_loop: no dial after a failed one.
PWorkerBackoff_give_up ==
  /\ p_thr["w"].pc = "backoff"
  /\ p_thr' = PGo("w", "done")
  /\ UNCHANGED <<p_max, p_failN, p_closed, p_failed, p_state, p_ever, p_lasterr, p_inner, p_pipes,
                 p_dials, p_attempts, p_r, p_res, p_cb>>
  /\ UNCHANGED nonp

\* worker_loop: cv_.wait_for(lk, sleep_for, closed_ || inner_) returns, by its
\* predicate or by its timeout.
PWorkerBackoff ==
  /\ p_thr["w"].pc = "backoff"
  /\ p_thr' = PGo("w", "loop")
  /\ UNCHANGED <<p_max, p_failN, p_closed, p_failed, p_state, p_ever, p_lasterr, p_inner, p_pipes,
                 p_dials, p_attempts, p_r, p_res, p_cb>>
  /\ UNCHANGED nonp

\* The times the send in progress has passed its message to an inner pipe
\* after n more calls of inner_snapshot->send (2: twice or more).
PPassed(c, n) == IF c = "a" THEN Min(p_thr[c].passed + n, 2) ELSE 0

\* send/recv returns code to its caller, after n more calls of the inner pipe.
PReturn(c, code, n) ==
  /\ p_thr' = [p_thr EXCEPT ![c] = PThread("idle")]
  /\ p_res' = [code |-> code, passed |-> PPassed(c, n)]

\* A thread calls send or recv with opt.timeout = timeout.
PCall(c, timeout) ==
  /\ p_thr[c].pc = "idle"
  /\ p_thr' = [p_thr EXCEPT ![c] = [PThread("wait") EXCEPT !.timeout = timeout]]
  /\ UNCHANGED <<p_max, p_failN, p_closed, p_failed, p_state, p_ever, p_lasterr, p_inner, p_pipes,
                 p_dials, p_attempts, p_r, p_res, p_cb>>
  /\ UNCHANGED nonp

\* PWaitConnected that looks at inner_ before closed_.
PWaitConnected_inner_first(c) ==
  /\ p_thr[c].pc = "wait"
  /\ p_closed \/ p_inner # 0 \/ p_failed
  /\ IF p_inner # 0 THEN p_thr' = PGo(c, "snap") /\ UNCHANGED p_res
     ELSE IF p_closed THEN PReturn(c, "kClosed", 0)
     ELSE PReturn(c, "kIoError", 0)
  /\ UNCHANGED <<p_max, p_failN, p_closed, p_failed, p_state, p_ever, p_lasterr, p_inner, p_pipes,
                 p_dials, p_attempts, p_r, p_cb>>
  /\ UNCHANGED nonp

\* wait_connected: the wait on cv_ returns with its predicate true.
PWaitConnected(c) ==
  /\ p_thr[c].pc = "wait"
  /\ p_closed \/ p_inner # 0 \/ p_failed
  /\ IF p_closed THEN PReturn(c, "kClosed", 0)
     ELSE IF p_failed THEN PReturn(c, "kIoError", 0)
     ELSE p_thr' = PGo(c, "snap") /\ UNCHANGED p_res
  /\ UNCHANGED <<p_max, p_failN, p_closed, p_failed, p_state, p_ever, p_lasterr, p_inner, p_pipes,
                 p_dials, p_attempts, p_r, p_cb>>
  /\ UNCHANGED nonp

\* wait_connected: cv_.wait_for runs out of time with its predicate false.
PWaitTimeout(c) ==
  /\ p_thr[c].pc = "wait"
  /\ p_thr[c].timeout > 0
  /\ ~(p_closed \/ p_inner # 0 \/ p_failed)
  /\ PReturn(c, "kTimeout", 0)
  /\ UNCHANGED <<p_max, p_failN, p_closed, p_failed, p_state, p_ever, p_lasterr, p_inner, p_pipes,
                 p_dials, p_attempts, p_r, p_cb>>
  /\ UNCHANGED nonp

\* snapshot_inner; without a pipe the loop goes round.
snapshot_inner(c) ==
  /\ p_thr[c].pc = "snap"
  /\ p_thr' = [p_thr EXCEPT ![c].snap = p_inner, ![c].pc = IF p_inner = 0 THEN "wait" ELSE "inner"]
  /\ UNCHANGED <<p_max, p_failN, p_closed, p_failed, p_state, p_ever, p_lasterr, p_inner, p_pipes,
                 p_dials, p_attempts, p_r, p_res, p_cb>>
  /\ UNCHANGED nonp

\* PInnerReturn for which only Closed is a disconnect error: an inner IoError
\* goes to the caller.
PInnerReturn_io_error_surfaces(c, code) ==
  /\ p_thr[c].pc = "inner"
  /\ IF p_pipes[p_thr[c].snap]
       THEN code = "kTimeout" => p_thr[c].timeout > 0
       ELSE code = "kClosed"
  /\ IF code = "kClosed"
       THEN /\ p_thr' = [p_thr EXCEPT ![c].pc = "mark", ![c].passed = PPassed(c, 1)]
            /\ UNCHANGED p_res
       ELSE PReturn(c, code, 1)
  /\ UNCHANGED <<p_max, p_failN, p_closed, p_failed, p_state, p_ever, p_lasterr, p_inner, p_pipes, p_dials,
                 p_attempts, p_r, p_cb>>
  /\ UNCHANGED nonp

\* inner_snapshot->send / recv is called and returns code: a closed pipe
\* returns Closed, an open one anything (Timeout only for a call with a
\* timeout).  Ok, Timeout and errors that are not disconnects go to the caller,
\* Closed and IoError to mark_disconnected.
PInnerReturn(c, code) ==
  /\ p_thr[c].pc = "inner"
  /\ IF p_pipes[p_thr[c].snap]
       THEN code = "kTimeout" => p_thr[c].timeout > 0
       ELSE code = "kClosed"
  /\ IF code \in {"kClosed", "kIoError"}
       THEN /\ p_thr' = [p_thr EXCEPT ![c].pc = "mark", ![c].passed = PPassed(c, 1)]
            /\ UNCHANGED p_res
       ELSE PReturn(c, code, 1)
  /\ UNCHANGED <<p_max, p_failN, p_closed, p_failed, p_state, p_ever, p_lasterr, p_inner, p_pipes, p_dials,
                 p_attempts, p_r, p_cb>>
  /\ UNCHANGED nonp

\* mark_disconnected, the region under mu_: nothing happens when the pipe is
\* closed, no pipe is installed or another one is; else inner_ is moved out and
\* set_state(kDisconnected) called.
mark_disconnected(c) ==
  /\ p_thr[c].pc = "mark"
  /\ IF p_closed \/ p_inner = 0 \/ p_inner # p_thr[c].snap
       THEN p_thr' = [p_thr EXCEPT ![c].pc = "wait", ![c].snap = 0] /\ UNCHANGED <<p_inner, p_lasterr>>
       ELSE /\ p_inner' = 0
            /\ p_lasterr' = TRUE
            /\ p_thr' = PCallSetState(c, "kDisconnected", "closeold")
  /\ UNCHANGED <<p_max, p_failN, p_closed, p_failed, p_state, p_ever, p_pipes, p_dials,
                 p_attempts, p_r, p_res, p_cb>>
  /\ UNCHANGED nonp

\* mark_disconnected, the end: inner_to_close->close(); the loop goes round.
PCloseOld(c) ==
  /\ p_thr[c].pc = "closeold"
  /\ p_pipes' = [p_pipes EXCEPT ![p_thr[c].snap] = FALSE]
  /\ p_thr' = [p_thr EXCEPT ![c].pc = "wait", ![c].snap = 0]
  /\ UNCHANGED <<p_max, p_failN, p_closed, p_failed, p_state, p_ever, p_lasterr, p_inner, p_dials,
                 p_attempts, p_r, p_res, p_cb>>
  /\ UNCHANGED nonp

\* close, the region under mu_: a closed pipe returns at once; else closed_ is
\* set, inner_ moved out and set_state(kClosed) called.
PClose ==
  /\ p_thr["x"].pc = "idle"
  /\ IF p_closed
       THEN /\ p_res' = [code |-> "returned", passed |-> 0]
            /\ UNCHANGED <<p_closed, p_inner, p_thr>>
       ELSE /\ p_closed' = TRUE
            /\ UNCHANGED p_res
            /\ p_inner' = 0
            /\ p_thr' = [PCallSetState("x", "kClosed", "closeinner") EXCEPT !["x"].snap = p_inner]
  /\ UNCHANGED <<p_max, p_failN, p_failed, p_state, p_ever, p_lasterr, p_pipes, p_dials,
                 p_attempts, p_r, p_cb>>
  /\ UNCHANGED nonp

\* close: inner_to_close->close().
PCloseInner ==
  /\ p_thr["x"].pc = "closeinner"
  /\ p_pipes' = IF p_thr["x"].snap = 0 THEN p_pipes
                ELSE [p_pipes EXCEPT ![p_thr["x"].snap] = FALSE]
  /\ p_thr' = [p_thr EXCEPT !["x"].pc = "join", !["x"].snap = 0]
  /\ UNCHANGED <<p_max, p_failN, p_closed, p_failed, p_state, p_ever, p_lasterr, p_inner, p_dials,
                 p_attempts, p_r, p_res, p_cb>>
  /\ UNCHANGED nonp

\* close: worker_.join() returns once worker_loop has returned.
PJoin ==
  /\ p_thr["x"].pc = "join"
  /\ p_thr["w"].pc = "done"
  /\ p_thr' = PGo("x", "idle")
  /\ p_res' = [code |-> "returned", passed |-> 0]
  /\ UNCHANGED <<p_max, p_failN, p_closed, p_failed, p_state, p_ever, p_lasterr, p_inner, p_pipes,
                 p_dials, p_attempts, p_r, p_cb>>
  /\ UNCHANGED nonp

PWorkerNext ==
  \/ PWorkerTop
  \/ PWorkerCheck
  \/ PWorkerWaitGone
  \/ PWorkerLoop
  \/ PWorkerLatch
  \/ \E ok \in BOOLEAN : PDialReturn(ok)
  \/ PWorkerInstall
  \/ PWorkerSetErr
  \/ PWorkerBackoff

PNext ==
  \/ PWorkerNext
  \/ \E t \in PThreads : set_state(t)
  \/ \E t \in PThreads : PCallback(t)
  \/ \E c \in PCallers : \E timeout \in PTimeouts(c) : PCall(c, timeout)
  \/ \E c \in PCallers : PWaitConnected(c)
  \/ \E c \in PCallers : PWaitTimeout(c)
  \/ \E c \in PCallers : snapshot_inner(c)
  \/ \E c \in PCallers, code \in PInnerCodes : PInnerReturn(c, code)
  \/ \E c \in PCallers : mark_disconnected(c)
  \/ \E c \in PCallers : PCloseOld(c)
  \/ PClose
  \/ PCloseInner
  \/ PJoin

-----------------------------------------------------------------------------
(***************************************************************************)
(* close of the pipe kinds: a ShmPipe, a QosPipe around a ShmPipe, a       *)
(* StateCallbackPipe around a ShmPipe, and the ReconnectPipe above.  Each  *)
(* close is one step.                                                      *)
(***************************************************************************)

\* Bound: calls of close on one pipe.
MaxCloses == 3

KKinds == {"shm", "qos", "statecb"}

\* Release counts stop at 2: twice or more.
KCount(n) == Min(n + 1, 2)

\* A ShmPipe after create_resources / open_resources: everything is open, the
\* names are linked, nothing has been released.
ShmOpen(owner) ==
  [mem |-> TRUE, shm_fd |-> TRUE, sems |-> TRUE, owner |-> owner, linked |-> TRUE,
   munmap |-> 0, fdclose |-> 0, sem_close |-> 0, unlink |-> 0]

\* close_handles: what is open is released and marked as released.
close_handles(h) ==
  [h EXCEPT !.mem = FALSE, !.munmap = IF h.mem THEN KCount(@) ELSE @,
            !.shm_fd = FALSE, !.fdclose = IF h.shm_fd THEN KCount(@) ELSE @,
            !.sems = FALSE, !.sem_close = IF h.sems THEN KCount(@) ELSE @]

\* ShmPipe::close finds nothing to do.
ShmClosed_never(h) == FALSE

ShmClosed(h) == ~h.mem /\ ~h.shm_fd

\* ShmPipe::close: close_handles, and the owner unlinks the names.
ShmPipeClose(h) ==
  IF ShmClosed(h) THEN h
  ELSE IF h.owner
         THEN [close_handles(h) EXCEPT !.linked = FALSE, !.unlink = KCount(@)]
         ELSE close_handles(h)

KInit ==
  /\ k_kind \in KKinds
  /\ \E owner \in BOOLEAN : k_shm = ShmOpen(owner)
  /\ k_running = (k_kind = "qos")
  /\ k_sc = [closed |-> FALSE, disconnected |-> FALSE, inner |-> k_kind = "statecb"]
  /\ k_cbs = <<>>
  /\ k_closes = 0

\* No pipe of these kinds, for the specifications of the other components;
\* kind is "none", or "reconnect" while the ReconnectPipe is the pipe in use.
KIdle(kind) ==
  /\ k_kind = kind
  /\ k_shm = close_handles(ShmOpen(FALSE))
  /\ k_running = FALSE
  /\ k_sc = [closed |-> TRUE, disconnected |-> FALSE, inner |-> FALSE]
  /\ k_cbs = <<>>
  /\ k_closes = 0

\* ShmPipe::close.
KShmClose ==
  /\ k_kind = "shm"
  /\ k_closes < MaxCloses
  /\ k_shm' = ShmPipeClose(k_shm)
  /\ k_closes' = k_closes + 1
  /\ UNCHANGED <<k_kind, k_running, k_sc, k_cbs>>
  /\ UNCHANGED nonk

\* QosPipe::send_worker: underlying_->send fails with Closed or IoError and
\* the worker stops.
KQosWorkerFail ==
  /\ k_kind = "qos"
  /\ k_running
  /\ k_running' = FALSE
  /\ UNCHANGED <<k_kind, k_shm, k_sc, k_cbs, k_closes>>
  /\ UNCHANGED nonk

\* QosPipe::close: running_ = false, underlying_->close().
KQosClose ==
  /\ k_kind = "qos"
  /\ k_closes < MaxCloses
  /\ k_running' = FALSE
  /\ k_shm' = ShmPipeClose(k_shm)
  /\ k_closes' = k_closes + 1
  /\ UNCHANGED <<k_kind, k_sc, k_cbs>>
  /\ UNCHANGED nonk

\* StateCallbackPipe::send / recv: the inner call fails with Closed or
\* IoError; emit_disconnected calls cb_ the first time only.
KStateCbDisconnect ==
  /\ k_kind = "statecb"
  /\ k_sc.inner
  /\ IF k_sc.disconnected
       THEN UNCHANGED <<k_sc, k_cbs>>
       ELSE /\ k_sc' = [k_sc EXCEPT !.disconnected = TRUE]
            /\ k_cbs' = Append(k_cbs, "kDisconnected")
  /\ UNCHANGED <<k_kind, k_shm, k_running, k_closes>>
  /\ UNCHANGED nonk

\* StateCallbackPipe::close: the first call sets closed_, calls cb_(kClosed),
\* closes inner_ and resets it, which destroys the ShmPipe (~ShmPipe closes).
KStateCbClose ==
  /\ k_kind = "statecb"
  /\ k_closes < MaxCloses
  /\ IF k_sc.closed
       THEN UNCHANGED <<k_sc, k_cbs, k_shm>>
       ELSE /\ k_sc' = [k_sc EXCEPT !.closed = TRUE, !.inner = FALSE]
            /\ k_cbs' = Append(k_cbs, "kClosed")
            /\ k_shm' = IF k_sc.inner THEN ShmPipeClose(ShmPipeClose(k_shm)) ELSE k_shm
  /\ k_closes' = k_closes + 1
  /\ UNCHANGED <<k_kind, k_running>>
  /\ UNCHANGED nonk

KNext ==
  \/ KShmClose
  \/ KQosWorkerFail
  \/ KQosClose
  \/ KStateCbDisconnect
  \/ KStateCbClose

-----------------------------------------------------------------------------
(***************************************************************************)
(* MessageQueue                                                            *)
(***************************************************************************)

\* Bounds of the model: the clock stops at MaxTime, push is called MaxPush times.
MaxTime == 3
MaxPush == 3

\* The configurations and inputs explored.
QHwms == {0, 2}
QTtls == {0, 1}
QSizes == {0, 1, 2}
QTimeouts == {0, 1}

QThreads == {1, 2}

Policies == {"kBlock", "kDropNew", "kDropOld", "kFailFast"}

QIdle == [op |-> "idle", size |-> 0, id |-> 0, timeout |-> 0, woken |-> FALSE]

QNoRes == [op |-> "none", code |-> "none", id |-> 0, size |-> 0]

QInit ==
  /\ q_hwm \in QHwms
  /\ q_policy \in Policies
  /\ q_ttl \in QTtls
  /\ q_queue = <<>>
  /\ q_total = 0
  /\ q_closed = FALSE
  /\ q_now = 1
  /\ q_thr = [t \in QThreads |-> QIdle]
  /\ q_res = QNoRes
  /\ q_nextId = 1

\* The queue at rest, for the specifications of the other components.
QIdleInit ==
  /\ q_hwm = 0
  /\ q_policy = "kBlock"
  /\ q_ttl = 0
  /\ q_queue = <<>>
  /\ q_total = 0
  /\ q_closed = FALSE
  /\ q_now = 1
  /\ q_thr = [t \in QThreads |-> QIdle]
  /\ q_res = QNoRes
  /\ q_nextId = 1

\* has_space_unlocked: no limit when hwm is 0, else strictly below the mark.
has_space_unlocked(total) == IF q_hwm = 0 THEN TRUE ELSE total < q_hwm

\* QAtHwm without the test of the new message's size.
QAtHwm_no_size(total, size) == ~has_space_unlocked(total)

\* The condition of push's `if` that sends it into the policy switch.
QAtHwm(total, size) ==
  \/ ~has_space_unlocked(total)
  \/ (total + size > q_hwm /\ q_hwm > 0)

\* The predicate the Block policy waits on.
QBlockPred(size) ==
  \/ q_closed
  \/ has_space_unlocked(q_total)
  \/ q_hwm = 0
  \/ q_total + size <= q_hwm

\* drop_oldest_unlocked, repeated as push's DropOld loop does.
RECURSIVE QDropOldLoop(_, _)
QDropOldLoop(s, total) ==
  IF ~has_space_unlocked(total) /\ s # <<>>
    THEN QDropOldLoop(Tail(s), total - Head(s).size)
    ELSE s

\* deadline of a message enqueued now: zero means "no expiry".
QDeadline == IF q_ttl > 0 THEN q_now + q_ttl ELSE 0

\* An entry counts as expired from its deadline on.
QExpired_at_deadline(e) == e.deadline # 0 /\ q_now >= e.deadline

QExpired(e) == e.deadline # 0 /\ q_now > e.deadline

\* The "skip expired messages" loop of pop and try_pop.
RECURSIVE QSkipExpired(_)
QSkipExpired(s) ==
  IF s # <<>> /\ QExpired(Head(s)) THEN QSkipExpired(Tail(s)) ELSE s

\* purge_expired's scan: every expired entry goes, the rest keep their order.
RECURSIVE QPurgeAll(_)
QPurgeAll(s) ==
  IF s = <<>> THEN <<>>
  ELSE IF QExpired(Head(s)) THEN QPurgeAll(Tail(s))
  ELSE <<Head(s)>> \o QPurgeAll(Tail(s))

\* Threads blocked on a condition variable and not yet woken.
QWaiters(thr, op) == {t \in QThreads : thr[t].op = op /\ ~thr[t].woken}

\* n calls of notify_one on the condition variable the `op` waiters block on:
\* each wakes one blocked thread if there is one. The set of possible outcomes.
QNotify(thr, op, n) ==
  { [t \in QThreads |-> IF t \in W THEN [thr[t] EXCEPT !.woken = TRUE] ELSE thr[t]] :
      W \in { X \in SUBSET QWaiters(thr, op) :
                Cardinality(X) = Min(n, Cardinality(QWaiters(thr, op))) } }

\* notify_all.
QNotifyAll(thr, op) ==
  [t \in QThreads |-> IF thr[t].op = op THEN [thr[t] EXCEPT !.woken = TRUE] ELSE thr[t]]

\* An enqueue that adds the new bytes and forgets those of the entries dropped.
QEnqueue_drop_uncounted(t, base, id, size) ==
  /\ q_queue' = Append(base, [id |-> id, size |-> size, deadline |-> QDeadline])
  /\ q_total' = q_total + size
  /\ q_res' = [op |-> "push", code |-> "kOk", id |-> 0, size |-> size]
  /\ \E thr2 \in QNotify([q_thr EXCEPT ![t] = QIdle], "pop_wait", 1) : q_thr' = thr2

\* The tail of push: enqueue, account the bytes, notify_one(not_empty).
QEnqueue(t, base, id, size) ==
  /\ q_queue' = Append(base, [id |-> id, size |-> size, deadline |-> QDeadline])
  /\ q_total' = q_total - (SumSizes(q_queue) - SumSizes(base)) + size
  /\ q_res' = [op |-> "push", code |-> "kOk", id |-> 0, size |-> size]
  /\ \E thr2 \in QNotify([q_thr EXCEPT ![t] = QIdle], "pop_wait", 1) : q_thr' = thr2

QReturn(t, op, code, id) ==
  /\ q_res' = [op |-> op, code |-> code, id |-> id, size |-> 0]
  /\ q_thr' = [q_thr EXCEPT ![t] = QIdle]

\* push returns code without having enqueued its message of size bytes.
QReturnPush(t, code, size) ==
  /\ q_res' = [op |-> "push", code |-> code, id |-> 0, size |-> size]
  /\ q_thr' = [q_thr EXCEPT ![t] = QIdle]

\* MessageQueue::push up to the point where it returns or starts to wait.
QPush(t, size, timeout) ==
  /\ q_thr[t].op = "idle"
  /\ q_nextId <= MaxPush
  /\ q_nextId' = q_nextId + 1
  /\ UNCHANGED <<q_hwm, q_policy, q_ttl, q_closed, q_now>>
  /\ IF q_closed
       THEN QReturnPush(t, "kClosed", size) /\ UNCHANGED <<q_queue, q_total>>
     ELSE IF QAtHwm(q_total, size)
       THEN CASE q_policy = "kBlock" ->
                   IF QBlockPred(size)
                     THEN QEnqueue(t, q_queue, q_nextId, size)
                     ELSE /\ q_thr' = [q_thr EXCEPT ![t] =
                                 [op |-> "push_wait", size |-> size, id |-> q_nextId,
                                  timeout |-> timeout, woken |-> FALSE]]
                          /\ UNCHANGED <<q_queue, q_total, q_res>>
              [] q_policy = "kDropNew" ->
                   QReturnPush(t, "kOk", size) /\ UNCHANGED <<q_queue, q_total>>
              [] q_policy = "kDropOld" ->
                   QEnqueue(t, QDropOldLoop(q_queue, q_total), q_nextId, size)
              [] q_policy = "kFailFast" ->
                   QReturnPush(t, "kIoError", size) /\ UNCHANGED <<q_queue, q_total>>
     ELSE QEnqueue(t, q_queue, q_nextId, size)
  /\ UNCHANGED nonq

\* A blocked push is woken (notify or spurious wake-up made it re-check) and
\* finds its predicate true.
QPushWake(t) ==
  /\ q_thr[t].op = "push_wait"
  /\ q_thr[t].woken
  /\ QBlockPred(q_thr[t].size)
  /\ UNCHANGED <<q_hwm, q_policy, q_ttl, q_closed, q_now, q_nextId>>
  /\ IF q_closed
       THEN QReturnPush(t, "kClosed", q_thr[t].size) /\ UNCHANGED <<q_queue, q_total>>
       ELSE QEnqueue(t, q_queue, q_thr[t].id, q_thr[t].size)
  /\ UNCHANGED nonq

\* wait_for's timeout elapsed: the predicate decides.
QPushTimeout(t) ==
  /\ q_thr[t].op = "push_wait"
  /\ q_thr[t].timeout > 0
  /\ ~QBlockPred(q_thr[t].size)
  /\ QReturnPush(t, "kTimeout", q_thr[t].size)
  /\ UNCHANGED <<q_hwm, q_policy, q_ttl, q_queue, q_total, q_closed, q_now, q_nextId>>
  /\ UNCHANGED nonq

\* The body of pop once its wait is over.
QPopBody(t) ==
  LET rest == QSkipExpired(q_queue)
      skipped == Len(q_queue) - Len(rest)
  IN IF q_queue = <<>>
       THEN /\ QReturn(t, "pop", IF q_closed THEN "kClosed" ELSE "kTimeout", 0)
            /\ UNCHANGED <<q_queue, q_total>>
     ELSE IF rest = <<>>
       THEN /\ q_queue' = <<>>
            /\ q_total' = q_total - SumSizes(q_queue)
            /\ q_res' = [op |-> "pop",
                         code |-> IF q_closed THEN "kClosed" ELSE "kTimeout", id |-> 0, size |-> 0]
            /\ \E thr2 \in QNotify([q_thr EXCEPT ![t] = QIdle], "push_wait", skipped) :
                  q_thr' = thr2
     ELSE /\ q_queue' = Tail(rest)
          /\ q_total' = q_total - (SumSizes(q_queue) - SumSizes(rest)) - Head(rest).size
          /\ q_res' = [op |-> "pop", code |-> "kOk", id |-> Head(rest).id, size |-> 0]
          /\ \E thr2 \in QNotify([q_thr EXCEPT ![t] = QIdle], "push_wait", skipped + 1) :
                q_thr' = thr2

QPopPred == q_closed \/ q_queue # <<>>

QPop(t, timeout) ==
  /\ q_thr[t].op = "idle"
  /\ UNCHANGED <<q_hwm, q_policy, q_ttl, q_closed, q_now, q_nextId>>
  /\ IF QPopPred
       THEN QPopBody(t)
       ELSE /\ q_thr' = [q_thr EXCEPT ![t] =
                  [op |-> "pop_wait", size |-> 0, id |-> 0, timeout |-> timeout,
                   woken |-> FALSE]]
            /\ UNCHANGED <<q_queue, q_total, q_res>>
  /\ UNCHANGED nonq

QPopWake(t) ==
  /\ q_thr[t].op = "pop_wait"
  /\ q_thr[t].woken
  /\ QPopPred
  /\ QPopBody(t)
  /\ UNCHANGED <<q_hwm, q_policy, q_ttl, q_closed, q_now, q_nextId>>
  /\ UNCHANGED nonq

QPopTimeout(t) ==
  /\ q_thr[t].op = "pop_wait"
  /\ q_thr[t].timeout > 0
  /\ ~QPopPred
  /\ QReturn(t, "pop", "kTimeout", 0)
  /\ UNCHANGED <<q_hwm, q_policy, q_ttl, q_queue, q_total, q_closed, q_now, q_nextId>>
  /\ UNCHANGED nonq

\* A woken waiter whose predicate is false goes back to waiting.
QRecheck(t) ==
  /\ q_thr[t].op \in {"push_wait", "pop_wait"}
  /\ q_thr[t].woken
  /\ IF q_thr[t].op = "push_wait" THEN ~QBlockPred(q_thr[t].size) ELSE ~QPopPred
  /\ q_thr' = [q_thr EXCEPT ![t].woken = FALSE]
  /\ UNCHANGED <<q_hwm, q_policy, q_ttl, q_queue, q_total, q_closed, q_now, q_res, q_nextId>>
  /\ UNCHANGED nonq

\* condition_variable::wait may wake spuriously.
QSpuriousWake(t) ==
  /\ q_thr[t].op \in {"push_wait", "pop_wait"}
  /\ ~q_thr[t].woken
  /\ q_thr' = [q_thr EXCEPT ![t].woken = TRUE]
  /\ UNCHANGED <<q_hwm, q_policy, q_ttl, q_queue, q_total, q_closed, q_now, q_res, q_nextId>>
  /\ UNCHANGED nonq

QTryPop(t) ==
  /\ q_thr[t].op = "idle"
  /\ UNCHANGED <<q_hwm, q_policy, q_ttl, q_closed, q_now, q_nextId>>
  /\ LET rest == QSkipExpired(q_queue)
     IN IF rest = <<>>
          THEN /\ q_queue' = <<>>
               /\ q_total' = q_total - SumSizes(q_queue)
               /\ QReturn(t, "try_pop", "nullopt", 0)
          ELSE /\ q_queue' = Tail(rest)
               /\ q_total' = q_total - (SumSizes(q_queue) - SumSizes(rest)) - Head(rest).size
               /\ q_res' = [op |-> "try_pop", code |-> "kOk", id |-> Head(rest).id, size |-> 0]
               /\ \E thr2 \in QNotify([q_thr EXCEPT ![t] = QIdle], "push_wait", 1) :
                     q_thr' = thr2
  /\ UNCHANGED nonq

QPurgeExpired(t) ==
  /\ q_thr[t].op = "idle"
  /\ UNCHANGED <<q_hwm, q_policy, q_ttl, q_closed, q_now, q_nextId>>
  /\ IF q_ttl = 0
       THEN /\ QReturn(t, "purge_expired", "count", 0)
            /\ UNCHANGED <<q_queue, q_total>>
       ELSE LET kept == QPurgeAll(q_queue)
                purged == Len(q_queue) - Len(kept)
            IN /\ q_queue' = kept
               /\ q_total' = q_total - (SumSizes(q_queue) - SumSizes(kept))
               /\ q_res' = [op |-> "purge_expired", code |-> "count", id |-> purged, size |-> 0]
               /\ q_thr' = IF purged > 0
                             THEN QNotifyAll([q_thr EXCEPT ![t] = QIdle], "push_wait")
                             ELSE [q_thr EXCEPT ![t] = QIdle]
  /\ UNCHANGED nonq

\* QClose without the notify_all calls.
QClose_no_notify ==
  /\ ~q_closed
  /\ q_closed' = TRUE
  /\ UNCHANGED <<q_hwm, q_policy, q_ttl, q_queue, q_total, q_now, q_thr, q_res, q_nextId>>
  /\ UNCHANGED nonq

QClose ==
  /\ ~q_closed
  /\ q_closed' = TRUE
  /\ q_thr' = QNotifyAll(QNotifyAll(q_thr, "push_wait"), "pop_wait")
  /\ UNCHANGED <<q_hwm, q_policy, q_ttl, q_queue, q_total, q_now, q_res, q_nextId>>
  /\ UNCHANGED nonq

QTick ==
  /\ q_now < MaxTime
  /\ q_now' = q_now + 1
  /\ UNCHANGED <<q_hwm, q_policy, q_ttl, q_queue, q_total, q_closed, q_thr, q_res, q_nextId>>
  /\ UNCHANGED nonq

QNext ==
  \/ \E t \in QThreads, size \in QSizes, timeout \in QTimeouts : QPush(t, size, timeout)
  \/ \E t \in QThreads : QPushWake(t)
  \/ \E t \in QThreads : QPushTimeout(t)
  \/ \E t \in QThreads, timeout \in QTimeouts : QPop(t, timeout)
  \/ \E t \in QThreads : QPopWake(t)
  \/ \E t \in QThreads : QPopTimeout(t)
  \/ \E t \in QThreads : QRecheck(t)
  \/ \E t \in QThreads : QSpuriousWake(t)
  \/ \E t \in QThreads : QTryPop(t)
  \/ \E t \in QThreads : QPurgeExpired(t)
  \/ QClose
  \/ QTick

-----------------------------------------------------------------------------
(* QosPipe: the send queue in front of an underlying pipe, and its worker *)

MaxOSends == 3

MaxOTime == 3

OHwms == {0, 2}

OTtls == {0, 1}

OSizes == {0, 1, 2}

\* opt.timeout of a send: none, or one that runs out.
OTimeouts == {0, 1}

\* What underlying_->send may return.
OInnerResults(inner) ==
  IF inner = "ok" THEN {"kOk"} ELSE {"kOk", "kClosed", "kIoError", "kTimeout"}

OCallIdle == [pc |-> "idle", id |-> 0, size |-> 0, timeout |-> 0]

ONoRes == [code |-> "none", id |-> 0, queued |-> FALSE]

\* A turn of the worker without a call of underlying_->send.
ONoTry == [id |-> 0, code |-> "none"]

\* QosPipe::QosPipe: running_ is set and the worker is started.
OInitWith(inners) ==
  /\ o_hwm \in OHwms
  /\ o_policy \in Policies
  /\ o_ttl \in OTtls
  /\ o_inner \in inners
  /\ o_running = TRUE
  /\ o_closed = FALSE
  /\ o_queue = <<>>
  /\ o_bytes = 0
  /\ o_count = 0
  /\ o_now = 1
  /\ o_wpc = "loop"
  /\ o_call = OCallIdle
  /\ o_res = ONoRes
  /\ o_sent = <<>>
  /\ o_last = ONoTry
  /\ o_nextId = 1

OInit == OInitWith({"ok", "any"})

\* No QosPipe in use, for the specifications of the other components.
OIdle ==
  /\ o_hwm = 0
  /\ o_policy = "kBlock"
  /\ o_ttl = 0
  /\ o_inner = "ok"
  /\ o_running = FALSE
  /\ o_closed = TRUE
  /\ o_queue = <<>>
  /\ o_bytes = 0
  /\ o_count = 0
  /\ o_now = 1
  /\ o_wpc = "done"
  /\ o_call = OCallIdle
  /\ o_res = ONoRes
  /\ o_sent = <<>>
  /\ o_last = ONoTry
  /\ o_nextId = 1

\* age > qos_.ttl for a queue entry, with ttl enabled.
OExpired(e) == o_ttl > 0 /\ o_now - e.timestamp > o_ttl

\* The remove_if of send_worker: every expired entry goes, the rest keep their
\* order.
RECURSIVE ORemoveExpired(_)
ORemoveExpired(s) ==
  IF s = <<>> THEN <<>>
  ELSE IF OExpired(Head(s)) THEN ORemoveExpired(Tail(s))
  ELSE <<Head(s)>> \o ORemoveExpired(Tail(s))

\* can_send_message, with send_bytes_ as it is when the worker calls it.
can_send_message(e, bytes) ==
  IF OExpired(e) THEN FALSE
  ELSE IF bytes >= o_hwm THEN FALSE
  ELSE TRUE

\* The entry send_worker hands to underlying_->send: the one at the back.
OFront_back(s) == s[Len(s)]

\* The entry send_worker hands to underlying_->send: send_queue_.front().
OFront(s) == Head(s)

OReturn(code, id, queued) ==
  /\ o_res' = [code |-> code, id |-> id, queued |-> queued]
  /\ o_call' = OCallIdle

\* The tail of send: emplace_back, account the bytes, return Ok.
OEnqueue(base) ==
  /\ o_queue' = Append(base, [id |-> o_call.id, size |-> o_call.size, timestamp |-> o_now])
  /\ o_bytes' = o_bytes - (SumSizes(o_queue) - SumSizes(base)) + o_call.size
  /\ o_count' = o_count - (Len(o_queue) - Len(base)) + 1
  /\ OReturn("kOk", o_call.id, TRUE)

\* QosPipe::send before it takes send_mutex_: the test of running_ and of the
\* message's size.
OSendStart(size, timeout) ==
  /\ o_call.pc = "idle"
  /\ o_nextId <= MaxOSends
  /\ o_nextId' = o_nextId + 1
  /\ IF ~o_running
       THEN OReturn("kClosed", o_nextId, FALSE)
     ELSE IF size > o_hwm
       THEN OReturn("kInvalidArgument", o_nextId, FALSE)
     ELSE /\ o_call' = [pc |-> "lock", id |-> o_nextId, size |-> size, timeout |-> timeout]
          /\ UNCHANGED o_res
  /\ UNCHANGED <<o_hwm, o_policy, o_ttl, o_inner, o_running, o_closed, o_queue, o_bytes, o_count,
                 o_now, o_wpc, o_sent, o_last>>
  /\ UNCHANGED nono

\* QosPipe::send with send_mutex_ held: the backpressure policy, then the
\* enqueue. A Block send whose predicate is false starts to wait.
OSendLocked ==
  /\ o_call.pc = "lock"
  /\ IF o_bytes >= o_hwm
       THEN CASE o_policy = "kFailFast" ->
                   OReturn("kIoError", o_call.id, FALSE) /\ UNCHANGED <<o_queue, o_bytes, o_count>>
              [] o_policy = "kDropNew" ->
                   OReturn("kOk", o_call.id, FALSE) /\ UNCHANGED <<o_queue, o_bytes, o_count>>
              [] o_policy = "kDropOld" ->
                   OEnqueue(IF o_queue # <<>> THEN Tail(o_queue) ELSE o_queue)
              [] o_policy = "kBlock" ->
                   IF ~o_running
                     THEN OReturn("kTimeout", o_call.id, FALSE) /\ UNCHANGED <<o_queue, o_bytes, o_count>>
                     ELSE /\ o_call' = [o_call EXCEPT !.pc = "wait"]
                          /\ UNCHANGED <<o_queue, o_bytes, o_count, o_res>>
       ELSE OEnqueue(o_queue)
  /\ UNCHANGED <<o_hwm, o_policy, o_ttl, o_inner, o_running, o_closed, o_now, o_wpc, o_sent,
                 o_last, o_nextId>>
  /\ UNCHANGED nono

\* The wait_for of a Block send is over, its predicate true or opt.timeout
\* elapsed (at once when opt.timeout is 0): the byte count decides.
OSendAfterWait ==
  /\ o_call.pc = "wait"
  /\ IF o_bytes >= o_hwm
       THEN OReturn("kTimeout", o_call.id, FALSE) /\ UNCHANGED <<o_queue, o_bytes, o_count>>
       ELSE OEnqueue(o_queue)
  /\ UNCHANGED <<o_hwm, o_policy, o_ttl, o_inner, o_running, o_closed, o_now, o_wpc, o_sent,
                 o_last, o_nextId>>
  /\ UNCHANGED nono

\* OWorkerTurn that pops the front entry after a failure that is not Closed or
\* IoError.
OWorkerTurn_drop_failed ==
  /\ o_wpc = "loop"
  /\ o_running
  /\ o_queue # <<>>
  /\ LET kept == ORemoveExpired(o_queue)
         bytes == o_bytes - (SumSizes(o_queue) - SumSizes(kept))
         count == o_count - (Len(o_queue) - Len(kept))
     IN IF kept = <<>>
          THEN /\ o_queue' = kept
               /\ o_bytes' = bytes /\ o_count' = count
               /\ o_last' = ONoTry
               /\ UNCHANGED <<o_running, o_wpc, o_sent>>
        ELSE IF can_send_message(OFront(kept), bytes)
          THEN \E r \in OInnerResults(o_inner) :
                 /\ o_last' = [id |-> OFront(kept).id, code |-> r]
                 /\ IF r = "kOk"
                      THEN /\ o_sent' = Append(o_sent, OFront(kept).id)
                           /\ o_queue' = Tail(kept)
                           /\ o_bytes' = bytes - OFront(kept).size /\ o_count' = count - 1
                           /\ UNCHANGED <<o_running, o_wpc>>
                    ELSE IF r \in {"kClosed", "kIoError"}
                      THEN /\ o_running' = FALSE
                           /\ o_wpc' = "done"
                           /\ o_queue' = kept
                           /\ o_bytes' = bytes /\ o_count' = count
                           /\ UNCHANGED o_sent
                    ELSE /\ o_queue' = Tail(kept)
                         /\ o_bytes' = bytes - OFront(kept).size /\ o_count' = count - 1
                         /\ UNCHANGED <<o_running, o_wpc, o_sent>>
        ELSE /\ o_wpc' = "sleep"
             /\ o_queue' = kept
             /\ o_bytes' = bytes /\ o_count' = count
             /\ o_last' = ONoTry
             /\ UNCHANGED <<o_running, o_sent>>
  /\ UNCHANGED <<o_hwm, o_policy, o_ttl, o_inner, o_closed, o_now, o_call, o_res, o_nextId>>
  /\ UNCHANGED nono

\* One turn of send_worker's loop with send_mutex_ held: its wait is over with
\* running_ set, it removes the expired entries and tries to send the front.
OWorkerTurn ==
  /\ o_wpc = "loop"
  /\ o_running
  /\ o_queue # <<>>
  /\ LET kept == ORemoveExpired(o_queue)
         bytes == o_bytes - (SumSizes(o_queue) - SumSizes(kept))
         count == o_count - (Len(o_queue) - Len(kept))
     IN IF kept = <<>>
          THEN /\ o_queue' = kept
               /\ o_bytes' = bytes /\ o_count' = count
               /\ o_last' = ONoTry
               /\ UNCHANGED <<o_running, o_wpc, o_sent>>
        ELSE IF can_send_message(OFront(kept), bytes)
          THEN \E r \in OInnerResults(o_inner) :
                 /\ o_last' = [id |-> OFront(kept).id, code |-> r]
                 /\ IF r = "kOk"
                      THEN /\ o_sent' = Append(o_sent, OFront(kept).id)
                           /\ o_queue' = Tail(kept)
                           /\ o_bytes' = bytes - OFront(kept).size /\ o_count' = count - 1
                           /\ UNCHANGED <<o_running, o_wpc>>
                    ELSE IF r \in {"kClosed", "kIoError"}
                      THEN /\ o_running' = FALSE
                           /\ o_wpc' = "done"
                           /\ o_queue' = kept
                           /\ o_bytes' = bytes /\ o_count' = count
                           /\ UNCHANGED o_sent
                    ELSE /\ o_queue' = kept
                         /\ o_bytes' = bytes /\ o_count' = count
                         /\ UNCHANGED <<o_running, o_wpc, o_sent>>
        ELSE /\ o_wpc' = "sleep"
             /\ o_queue' = kept
             /\ o_bytes' = bytes /\ o_count' = count
             /\ o_last' = ONoTry
             /\ UNCHANGED <<o_running, o_sent>>
  /\ UNCHANGED <<o_hwm, o_policy, o_ttl, o_inner, o_closed, o_now, o_call, o_res, o_nextId>>
  /\ UNCHANGED nono

\* The worker's sleep of one millisecond is over.
OWorkerWake ==
  /\ o_wpc = "sleep"
  /\ o_wpc' = "loop"
  /\ UNCHANGED <<o_hwm, o_policy, o_ttl, o_inner, o_running, o_closed, o_queue, o_bytes, o_count,
                 o_now, o_call, o_res, o_sent, o_last, o_nextId>>
  /\ UNCHANGED nono

\* send_worker finds running_ cleared, at the head of its loop or after its
\* wait, and ends.
OWorkerExit ==
  /\ o_wpc = "loop"
  /\ ~o_running
  /\ o_wpc' = "done"
  /\ UNCHANGED <<o_hwm, o_policy, o_ttl, o_inner, o_running, o_closed, o_queue, o_bytes, o_count,
                 o_now, o_call, o_res, o_sent, o_last, o_nextId>>
  /\ UNCHANGED nono

\* QosPipe::close.
OClose ==
  /\ ~o_closed
  /\ o_closed' = TRUE
  /\ o_running' = FALSE
  /\ UNCHANGED <<o_hwm, o_policy, o_ttl, o_inner, o_queue, o_bytes, o_count, o_now, o_wpc, o_call,
                 o_res, o_sent, o_last, o_nextId>>
  /\ UNCHANGED nono

OTick ==
  /\ o_now < MaxOTime
  /\ o_now' = o_now + 1
  /\ UNCHANGED <<o_hwm, o_policy, o_ttl, o_inner, o_running, o_closed, o_queue, o_bytes, o_count,
                 o_wpc, o_call, o_res, o_sent, o_last, o_nextId>>
  /\ UNCHANGED nono

OSendStep ==
  \/ \E size \in OSizes, timeout \in OTimeouts : OSendStart(size, timeout)
  \/ OSendLocked
  \/ OSendAfterWait

ONext ==
  \/ \E size \in OSizes, timeout \in OTimeouts : OSendStart(size, timeout)
  \/ OSendLocked
  \/ OSendAfterWait
  \/ OWorkerTurn
  \/ OWorkerWake
  \/ OWorkerExit
  \/ OClose
  \/ OTick

\* The worker's turn up to its call of underlying_->send: send_mutex_ is
\* taken, the expired entries go, and with a front entry that can be sent the
\* worker enters underlying_->send with send_mutex_ still held.
OWorkerSendBegin ==
  /\ o_wpc = "loop"
  /\ o_running
  /\ o_queue # <<>>
  /\ LET kept == ORemoveExpired(o_queue)
         bytes == o_bytes - (SumSizes(o_queue) - SumSizes(kept))
         count == o_count - (Len(o_queue) - Len(kept))
     IN /\ o_queue' = kept
        /\ o_bytes' = bytes /\ o_count' = count
        /\ IF kept = <<>>
             THEN o_last' = ONoTry /\ UNCHANGED o_wpc
           ELSE IF can_send_message(OFront(kept), bytes)
             THEN o_wpc' = "inner" /\ UNCHANGED o_last
           ELSE o_wpc' = "sleep" /\ o_last' = ONoTry
  /\ UNCHANGED <<o_hwm, o_policy, o_ttl, o_inner, o_running, o_closed, o_now, o_call, o_res,
                 o_sent, o_nextId>>
  /\ UNCHANGED nono

\* underlying_->send returns to the worker, which handles the result and lets
\* go of send_mutex_. An inner pipe that is stalled never returns.
OWorkerSendReturn ==
  /\ o_wpc = "inner"
  /\ o_inner # "stalled"
  /\ \E r \in OInnerResults(o_inner) :
       /\ o_last' = [id |-> OFront(o_queue).id, code |-> r]
       /\ IF r = "kOk"
            THEN /\ o_sent' = Append(o_sent, OFront(o_queue).id)
                 /\ o_queue' = Tail(o_queue)
                 /\ o_bytes' = o_bytes - OFront(o_queue).size /\ o_count' = o_count - 1
                 /\ o_wpc' = "loop"
                 /\ UNCHANGED o_running
          ELSE IF r \in {"kClosed", "kIoError"}
            THEN /\ o_running' = FALSE
                 /\ o_wpc' = "done"
                 /\ UNCHANGED <<o_queue, o_bytes, o_count, o_sent>>
          ELSE /\ o_wpc' = "loop"
               /\ UNCHANGED <<o_queue, o_bytes, o_count, o_sent, o_running>>
  /\ UNCHANGED <<o_hwm, o_policy, o_ttl, o_inner, o_closed, o_now, o_call, o_res, o_nextId>>
  /\ UNCHANGED nono

\* send_mutex_ is free: the worker is not inside underlying_->send.
OMutexFree == o_wpc # "inner"

\* QosPipe::send takes send_mutex_ (unique_lock) and runs its locked part.
OSendTakesLock == OMutexFree /\ OSendLocked

\* The wait_for of a Block send takes send_mutex_ again before it returns.
OSendWaitTakesLock == OMutexFree /\ OSendAfterWait

\* QosPipe::close takes send_mutex_ (lock_guard) before it clears running_.
OCloseTakesLock == OMutexFree /\ OClose

OStallNext ==
  \/ \E size \in OSizes, timeout \in OTimeouts : OSendStart(size, timeout)
  \/ OSendTakesLock
  \/ OSendWaitTakesLock
  \/ OWorkerSendBegin
  \/ OWorkerSendReturn
  \/ OWorkerWake
  \/ OWorkerExit
  \/ OCloseTakesLock
  \/ OTick

-----------------------------------------------------------------------------
(* Transport dispatch: Address::parse, duct::listen and duct::dial *)

\* The text before "://", or "" for an address without a scheme.
DSchemeTexts == {"", "tcp", "uds", "shm", "pipe", "foo"}

\* The text after "://": nothing, a name without a colon, host:port with a
\* valid port, host:port with a port that is no u16.
DBodies == {"empty", "name", "hostport", "badport"}

DInputs ==
  [op : {"listen", "dial"}, scheme_text : DSchemeTexts, body : DBodies, win : BOOLEAN,
   connect : {"kOk", "kIoError", "kTimeout"},
   hwm : OHwms, policy : Policies, reconnect : BOOLEAN]

DNoOut == [status |-> "none", transport |-> "none", layers |-> <<>>]

DInit ==
  /\ d_in \in DInputs
  /\ d_out = DNoOut

\* No call of listen or dial, for the specifications of the other components.
DIdle ==
  /\ d_in = [op |-> "dial", scheme_text |-> "shm", body |-> "name", win |-> FALSE,
             connect |-> "kOk", hwm |-> 0, policy |-> "kBlock", reconnect |-> FALSE]
  /\ d_out = DNoOut

\* Address::parse, the scheme: tcp without "://", kUnknown for a name it does
\* not know.
DScheme(a) ==
  CASE a.scheme_text \in {"", "tcp"} -> "kTcp"
    [] a.scheme_text = "uds" -> "kUds"
    [] a.scheme_text = "shm" -> "kShm"
    [] a.scheme_text = "pipe" -> "kPipe"
    [] OTHER -> "kUnknown"

\* Address::parse, the status it returns.
DParse(a) ==
  CASE DScheme(a) = "kTcp" ->
         IF a.body = "hostport" THEN "kOk" ELSE "kInvalidArgument"
    [] DScheme(a) \in {"kShm", "kPipe"} ->
         IF a.body = "empty" THEN "kInvalidArgument" ELSE "kOk"
    [] DScheme(a) = "kUds" -> "kNotSupported"
    [] OTHER -> "kInvalidArgument"

\* A dispatch that serves pipe:// on every host.
DRoute_pipe_everywhere(a) ==
  CASE DScheme(a) = "kTcp" -> "tcp"
    [] DScheme(a) = "kShm" -> "shm"
    [] DScheme(a) = "kPipe" -> "pipe"
    [] OTHER -> "none"

\* The transport listen and dial route a parsed address to, if any: tcp, shm,
\* and pipe on Windows.
DRoute(a) ==
  CASE DScheme(a) = "kTcp" -> "tcp"
    [] DScheme(a) = "kShm" -> "shm"
    [] DScheme(a) = "kPipe" /\ a.win -> "pipe"
    [] OTHER -> "none"

\* What tcp_dial, shm_dial, pipe_dial and their listen counterparts return:
\* tcp is not implemented on Windows, else the outcome of the connect or bind.
DTransport(a) == IF DRoute(a) = "tcp" /\ a.win THEN "kNotSupported" ELSE a.connect

\* dial wraps the transport's pipe in a QosPipe.
DQosEnabled(a) == a.hwm # 0 \/ a.policy # "kBlock"

\* duct::listen.
listen(a) ==
  IF DParse(a) # "kOk" THEN [status |-> DParse(a), transport |-> "none", layers |-> <<>>]
  ELSE IF DRoute(a) = "none"
    THEN [status |-> "kNotSupported", transport |-> "none", layers |-> <<>>]
  ELSE IF DTransport(a) # "kOk"
    THEN [status |-> DTransport(a), transport |-> DRoute(a), layers |-> <<>>]
  ELSE [status |-> "kOk", transport |-> DRoute(a), layers |-> <<DRoute(a)>>]

\* duct::dial.
dial(a) ==
  IF DParse(a) # "kOk" THEN [status |-> DParse(a), transport |-> "none", layers |-> <<>>]
  ELSE IF DRoute(a) = "none"
    THEN [status |-> "kNotSupported", transport |-> "none", layers |-> <<>>]
  ELSE IF DTransport(a) # "kOk"
    THEN [status |-> DTransport(a), transport |-> DRoute(a), layers |-> <<>>]
  ELSE IF DQosEnabled(a)
    THEN [status |-> "kOk", transport |-> DRoute(a), layers |-> <<"qos", DRoute(a)>>]
  ELSE [status |-> "kOk", transport |-> DRoute(a), layers |-> <<DRoute(a)>>]

DListen ==
  /\ d_in.op = "listen"
  /\ d_out = DNoOut
  /\ d_out' = listen(d_in)
  /\ UNCHANGED d_in
  /\ UNCHANGED nond

DDial ==
  /\ d_in.op = "dial"
  /\ d_out = DNoOut
  /\ d_out' = dial(d_in)
  /\ UNCHANGED d_in
  /\ UNCHANGED nond

DNext == DListen \/ DDial

-----------------------------------------------------------------------------
(***************************************************************************)
(* The shm bootstrap: shm_dial creates a region and four semaphores under  *)
(* names made from its connection id, connects to the listener's unix      *)
(* socket and writes the id; ShmListener::accept takes a connection, reads *)
(* the id and opens the resources of that name.  A region is named here    *)
(* after the dial call that created it; its rings are FIFO queues (the     *)
(* ring itself is modelled above).                                         *)
(***************************************************************************)

\* Bound: the number of dial calls.
MaxShmDials == 2

BDiallers == 1..MaxShmDials

\* The threads that call accept on the listener.
BAcceptors == {1, 2}

\* random_conn_id_hex16(): 16 hex digits, here the first 8 and the last 8.
BConnIds == {<<1, 1>>, <<1, 2>>, <<2, 1>>}

\* Resource names that leave the connection id out.
make_names_no_connid(connid) == 0

\* make_names(bus_name, connid), the part of the names that differs between
\* connections: conn8 = connid.substr(0, 8).
make_names(connid) == connid[1]

BNames == {make_names(c) : c \in BConnIds}

BNoRing == [c2s |-> <<>>, s2c |-> <<>>]

BInitWith(diallers) ==
  /\ b_dial = [d \in diallers |-> [pc |-> "idle", connid |-> <<0, 0>>, sent |-> FALSE]]
  /\ b_names = [n \in BNames |-> 0]
  /\ b_ring = [d \in diallers |-> BNoRing]
  /\ b_sock = [d \in diallers |-> "none"]
  /\ b_backlog = <<>>
  /\ b_accept = [a \in BAcceptors |-> [pc |-> "idle", cfd |-> 0, res |-> "none"]]
  /\ b_pipes = <<>>
  /\ b_got = {}

BInit == BInitWith(BDiallers)

\* No dial call, for the specifications of the other components.
BIdle == BInitWith({})

\* sem_unlink and shm_unlink of the names of n: whatever is linked under them
\* is unlinked.
BUnlink(names, n) == [names EXCEPT ![n] = 0]

\* shm_dial: random_conn_id_hex16, make_names and create_resources.  O_EXCL
\* makes the create fail while the names are linked.
ShmDialCreate(d, connid) ==
  /\ b_dial[d].pc = "idle"
  /\ IF b_names[make_names(connid)] # 0
       THEN /\ b_dial' = [b_dial EXCEPT ![d] = [@ EXCEPT !.pc = "failed", !.connid = connid]]
            /\ UNCHANGED b_names
       ELSE /\ b_dial' = [b_dial EXCEPT ![d] = [@ EXCEPT !.pc = "created", !.connid = connid]]
            /\ b_names' = [b_names EXCEPT ![make_names(connid)] = d]
  /\ UNCHANGED <<b_ring, b_sock, b_backlog, b_accept, b_pipes, b_got>>
  /\ UNCHANGED nonb

\* shm_dial: uds_connect succeeds; the connection waits in the accept queue.
ShmDialConnect(d) ==
  /\ b_dial[d].pc = "created"
  /\ b_dial' = [b_dial EXCEPT ![d].pc = "connected"]
  /\ b_sock' = [b_sock EXCEPT ![d] = "pending"]
  /\ b_backlog' = Append(b_backlog, d)
  /\ UNCHANGED <<b_names, b_ring, b_accept, b_pipes, b_got>>
  /\ UNCHANGED nonb

\* shm_dial: uds_connect fails; the resources are closed and unlinked.
ShmDialConnectFail(d) ==
  /\ b_dial[d].pc = "created"
  /\ b_dial' = [b_dial EXCEPT ![d].pc = "failed"]
  /\ b_names' = BUnlink(b_names, make_names(b_dial[d].connid))
  /\ UNCHANGED <<b_ring, b_sock, b_backlog, b_accept, b_pipes, b_got>>
  /\ UNCHANGED nonb

\* shm_dial: write_all of the connection id, close of the socket, and the
\* return of the client's pipe.
ShmDialWrite(d) ==
  /\ b_dial[d].pc = "connected"
  /\ b_dial' = [b_dial EXCEPT ![d].pc = "open"]
  /\ b_sock' = [b_sock EXCEPT ![d] = "written"]
  /\ UNCHANGED <<b_names, b_ring, b_backlog, b_accept, b_pipes, b_got>>
  /\ UNCHANGED nonb

\* shm_dial: write_all fails; the socket is closed with no id on it, the
\* resources are closed and unlinked.
ShmDialWriteFail(d) ==
  /\ b_dial[d].pc = "connected"
  /\ b_dial' = [b_dial EXCEPT ![d].pc = "failed"]
  /\ b_sock' = [b_sock EXCEPT ![d] = "closed"]
  /\ b_names' = BUnlink(b_names, make_names(b_dial[d].connid))
  /\ UNCHANGED <<b_ring, b_backlog, b_accept, b_pipes, b_got>>
  /\ UNCHANGED nonb

\* ShmListener::accept: ::accept takes the oldest waiting connection.
ShmAccept(a) ==
  /\ b_accept[a].pc = "idle"
  /\ b_backlog # <<>>
  /\ b_accept' = [b_accept EXCEPT ![a] = [pc |-> "read", cfd |-> Head(b_backlog), res |-> "none"]]
  /\ b_backlog' = Tail(b_backlog)
  /\ UNCHANGED <<b_dial, b_names, b_ring, b_sock, b_pipes, b_got>>
  /\ UNCHANGED nonb

\* ShmListener::accept: read_exact of the 16 bytes, make_names and
\* open_resources; the pipe is bound to whatever is linked under the names.
ShmAcceptOpen(a) ==
  /\ b_accept[a].pc = "read"
  /\ b_sock[b_accept[a].cfd] = "written"
  /\ LET connid == b_dial[b_accept[a].cfd].connid
         region == b_names[make_names(connid)]
     IN IF region = 0
          THEN /\ b_accept' = [b_accept EXCEPT ![a] = [pc |-> "idle", cfd |-> 0, res |-> "kIoError"]]
               /\ UNCHANGED b_pipes
          ELSE /\ b_accept' = [b_accept EXCEPT ![a] = [pc |-> "idle", cfd |-> 0, res |-> "kOk"]]
               /\ b_pipes' = Append(b_pipes, [conn |-> b_accept[a].cfd, connid |-> connid,
                                              region |-> region, sent |-> FALSE,
                                              closed |-> FALSE])
  /\ UNCHANGED <<b_dial, b_names, b_ring, b_sock, b_backlog, b_got>>
  /\ UNCHANGED nonb

\* ShmListener::accept: read_exact finds the connection closed by the peer.
ShmAcceptReadFail(a) ==
  /\ b_accept[a].pc = "read"
  /\ b_sock[b_accept[a].cfd] = "closed"
  /\ b_accept' = [b_accept EXCEPT ![a] = [pc |-> "idle", cfd |-> 0, res |-> "kClosed"]]
  /\ UNCHANGED <<b_dial, b_names, b_ring, b_sock, b_backlog, b_pipes, b_got>>
  /\ UNCHANGED nonb

\* ShmPipe::send on the client's pipe of dial call d.
BClientSend(d) ==
  /\ b_dial[d].pc = "open"
  /\ ~b_dial[d].sent
  /\ b_dial' = [b_dial EXCEPT ![d].sent = TRUE]
  /\ b_ring' = [b_ring EXCEPT ![d].c2s = Append(@, d)]
  /\ UNCHANGED <<b_names, b_sock, b_backlog, b_accept, b_pipes, b_got>>
  /\ UNCHANGED nonb

\* ShmPipe::recv on the client's pipe of dial call d.
BClientRecv(d) ==
  /\ b_dial[d].pc = "open"
  /\ b_ring[d].s2c # <<>>
  /\ b_got' = b_got \cup {[by |-> "client", conn |-> d, from |-> Head(b_ring[d].s2c)]}
  /\ b_ring' = [b_ring EXCEPT ![d].s2c = Tail(@)]
  /\ UNCHANGED <<b_dial, b_names, b_sock, b_backlog, b_accept, b_pipes>>
  /\ UNCHANGED nonb

\* A close of the client's pipe that leaves the names linked.
BClientClose_no_unlink(d) ==
  /\ b_dial[d].pc = "open"
  /\ b_dial' = [b_dial EXCEPT ![d].pc = "closed"]
  /\ UNCHANGED <<b_names, b_ring, b_sock, b_backlog, b_accept, b_pipes, b_got>>
  /\ UNCHANGED nonb

\* ShmPipe::close on the client's pipe: the owner unlinks the names.
BClientClose(d) ==
  /\ b_dial[d].pc = "open"
  /\ b_dial' = [b_dial EXCEPT ![d].pc = "closed"]
  /\ b_names' = BUnlink(b_names, make_names(b_dial[d].connid))
  /\ UNCHANGED <<b_ring, b_sock, b_backlog, b_accept, b_pipes, b_got>>
  /\ UNCHANGED nonb

\* ShmPipe::close on the i-th accepted pipe: owner_ is false, nothing is
\* unlinked.
BServerClose(i) ==
  /\ i \in 1..Len(b_pipes)
  /\ ~b_pipes[i].closed
  /\ b_pipes' = [b_pipes EXCEPT ![i].closed = TRUE]
  /\ UNCHANGED <<b_dial, b_names, b_ring, b_sock, b_backlog, b_accept, b_got>>
  /\ UNCHANGED nonb

\* ShmPipe::send on the i-th accepted pipe.
BServerSend(i) ==
  /\ i \in 1..Len(b_pipes)
  /\ ~b_pipes[i].closed
  /\ ~b_pipes[i].sent
  /\ b_pipes' = [b_pipes EXCEPT ![i].sent = TRUE]
  /\ b_ring' = [b_ring EXCEPT ![b_pipes[i].region].s2c = Append(@, b_pipes[i].conn)]
  /\ UNCHANGED <<b_dial, b_names, b_sock, b_backlog, b_accept, b_got>>
  /\ UNCHANGED nonb

\* ShmPipe::recv on the i-th accepted pipe.
BServerRecv(i) ==
  /\ i \in 1..Len(b_pipes)
  /\ ~b_pipes[i].closed
  /\ b_ring[b_pipes[i].region].c2s # <<>>
  /\ b_got' = b_got \cup {[by |-> "server", conn |-> b_pipes[i].conn,
                           from |-> Head(b_ring[b_pipes[i].region].c2s)]}
  /\ b_ring' = [b_ring EXCEPT ![b_pipes[i].region].c2s = Tail(@)]
  /\ UNCHANGED <<b_dial, b_names, b_sock, b_backlog, b_accept, b_pipes>>
  /\ UNCHANGED nonb

BNext ==
  \/ \E d \in BDiallers, connid \in BConnIds : ShmDialCreate(d, connid)
  \/ \E d \in BDiallers : ShmDialConnect(d)
  \/ \E d \in BDiallers : ShmDialConnectFail(d)
  \/ \E d \in BDiallers : ShmDialWrite(d)
  \/ \E d \in BDiallers : ShmDialWriteFail(d)
  \/ \E a \in BAcceptors : ShmAccept(a)
  \/ \E a \in BAcceptors : ShmAcceptOpen(a)
  \/ \E a \in BAcceptors : ShmAcceptReadFail(a)
  \/ \E d \in BDiallers : BClientSend(d)
  \/ \E d \in BDiallers : BClientRecv(d)
  \/ \E d \in BDiallers : BClientClose(d)
  \/ \E i \in BDiallers : BServerSend(i)
  \/ \E i \in BDiallers : BServerRecv(i)
  \/ \E i \in BDiallers : BServerClose(i)

-----------------------------------------------------------------------------
(***************************************************************************)
(* The backoff of ReconnectPipe::worker_loop: the delay between the dial   *)
(* attempts of one connect episode, in milliseconds.  max_attempts is 0    *)
(* here (retry forever); the latch is modelled with the supervisor above.  *)
(***************************************************************************)

\* Bound: the failed dial attempts of one episode.
MaxRetries == 4

\* Bound: the connect episodes.
MaxEpisodes == 2

\* policy_.initial_delay and policy_.max_delay.
RInitials == {0, 1, 3}

RMaxDelays == {2, 5}

\* policy_.backoff_multiplier as a fraction: 1/2, 1, 3/2, 2.
RMultipliers == {<<1, 2>>, <<1, 1>>, <<3, 2>>, <<2, 1>>}

RStart(initial, maxd, mult) ==
  [initial |-> initial, maxd |-> maxd, mult |-> mult, pc |-> "dial", attempts |-> 0,
   delay |-> initial, sleep_for |-> 0, waited |-> 0, cut |-> FALSE, closed |-> FALSE,
   episode |-> 1]

RInit == r_ep \in {RStart(i, m, x) : i \in RInitials, m \in RMaxDelays, x \in RMultipliers}

\* No reconnect worker, for the specifications of the other components.
RIdle == r_ep = [RStart(0, 2, <<1, 1>>) EXCEPT !.pc = "done", !.closed = TRUE]

\* The next delay without the cap at max_delay.
RNextDelay_no_cap(e) == (e.delay * e.mult[1]) \div e.mult[2]

\* next_ms = (long long)(double(delay) * backoff_multiplier), and
\* delay = min(max_delay, max(0, next_ms)).
RNextDelay(e) == Min(e.maxd, Max(0, (e.delay * e.mult[1]) \div e.mult[2]))

\* The values uniform_int_distribution(0, max(0, delay / 2)) can return; no
\* jitter when delay is 0.
RJitters(delay) == IF delay > 0 THEN 0..Max(0, delay \div 2) ELSE {0}

\* dial_once_ succeeds: inner_ is installed and the episode is over.
RDialOk ==
  /\ r_ep.pc = "dial"
  /\ ~r_ep.closed
  /\ r_ep' = [r_ep EXCEPT !.pc = "connected"]
  /\ UNCHANGED nonr

\* dial_once_ fails: ++attempts, the jitter is drawn and the wait_for begins.
RDialFail(jitter) ==
  /\ r_ep.pc = "dial"
  /\ ~r_ep.closed
  /\ r_ep.attempts < MaxRetries
  /\ jitter \in RJitters(r_ep.delay)
  /\ r_ep' = [r_ep EXCEPT !.pc = "sleeping", !.attempts = @ + 1,
                          !.sleep_for = r_ep.delay + jitter, !.waited = 0, !.cut = FALSE]
  /\ UNCHANGED nonr

\* One millisecond of the wait_for passes.
RTick ==
  /\ r_ep.pc = "sleeping"
  /\ ~r_ep.closed
  /\ r_ep.waited < r_ep.sleep_for
  /\ r_ep' = [r_ep EXCEPT !.waited = @ + 1]
  /\ UNCHANGED nonr

\* The wait_for returns, sleep_for having elapsed or closed_ being set; the
\* next delay is computed and the loop goes on to is_closed().
RWake ==
  /\ r_ep.pc = "sleeping"
  /\ r_ep.closed \/ r_ep.waited = r_ep.sleep_for
  /\ r_ep' = [r_ep EXCEPT !.pc = IF r_ep.closed THEN "done" ELSE "dial",
                          !.cut = r_ep.waited < r_ep.sleep_for,
                          !.delay = RNextDelay(r_ep)]
  /\ UNCHANGED nonr

\* The inner pipe is lost (mark_disconnected): the worker's wait while
\* connected ends and a new episode starts with attempts = 0 and
\* delay = initial_delay.
RDisconnect ==
  /\ r_ep.pc = "connected"
  /\ ~r_ep.closed
  /\ r_ep.episode < MaxEpisodes
  /\ r_ep' = [r_ep EXCEPT !.pc = "dial", !.attempts = 0, !.delay = r_ep.initial,
                          !.sleep_for = 0, !.waited = 0, !.cut = FALSE, !.episode = @ + 1]
  /\ UNCHANGED nonr

\* ReconnectPipe::close sets closed_ and notifies cv_; a worker that is not in
\* its backoff wait finds closed_ at its next test and returns.
RClose ==
  /\ ~r_ep.closed
  /\ r_ep' = [r_ep EXCEPT !.closed = TRUE,
                          !.pc = IF r_ep.pc = "sleeping" THEN "sleeping" ELSE "done"]
  /\ UNCHANGED nonr

RNext ==
  \/ RDialOk
  \/ \E jitter \in 0..Max(0, r_ep.delay \div 2) : RDialFail(jitter)
  \/ RTick
  \/ RWake
  \/ RDisconnect
  \/ RClose

-----------------------------------------------------------------------------
(* Specifications and properties *)

QueueInit == QInit /\ CIdle /\ WIdle /\ SIdle /\ PIdle /\ KIdle("none") /\ OIdle /\ DIdle /\ BIdle /\ RIdle

SpecQueue == QueueInit /\ [][QNext]_vars

\* C1: with HWM h > 0, under every policy, the byte total size_bytes() reports
\* after any push has returned never exceeds h.
C1_TotalNeverAboveHwm == q_hwm > 0 => q_total <= q_hwm

-----------------------------------------------------------------------------
\* The queue after entries have gone from the oldest end, one after the
\* other, until a message of size bytes fits under the HWM.
RECURSIVE QDropUntilFits(_, _)
QDropUntilFits(s, size) ==
  IF s # <<>> /\ SumSizes(s) + size > q_hwm THEN QDropUntilFits(Tail(s), size) ELSE s

\* C17: under DropOld a push of a message that fits under the HWM by itself
\* but not with the queue as it is leaves the queue without just as many of
\* its oldest entries as have to go for the message to fit, the message at
\* the tail, and the byte total at the sum of the sizes.
C17_DropOldMakesRoom ==
  [][(/\ q_nextId' = q_nextId + 1
      /\ q_policy = "kDropOld"
      /\ ~q_closed
      /\ q_hwm > 0
      /\ q_res'.size <= q_hwm
      /\ q_total + q_res'.size > q_hwm)
     => /\ q_res' = [op |-> "push", code |-> "kOk", id |-> 0, size |-> q_res'.size]
        /\ q_queue' = Append(QDropUntilFits(q_queue, q_res'.size),
                             [id |-> q_nextId, size |-> q_res'.size, deadline |-> QDeadline])
        /\ q_total' = SumSizes(q_queue')]_vars

\* C18: a push on an open queue with a HWM that is at or above the mark, or
\* would go above it with the message, returns Ok under DropNew and IoError
\* under FailFast, and leaves the queue, the byte total and every thread as
\* they were (no waiter is woken).
C18_DropNewFailFastNoEffect ==
  [][(/\ q_nextId' = q_nextId + 1
      /\ q_policy \in {"kDropNew", "kFailFast"}
      /\ ~q_closed
      /\ q_hwm > 0
      /\ (q_total >= q_hwm \/ q_total + q_res'.size > q_hwm))
     => /\ q_res'.op = "push"
        /\ q_res'.code = (IF q_policy = "kDropNew" THEN "kOk" ELSE "kIoError")
        /\ UNCHANGED <<q_queue, q_total, q_thr>>]_vars

\* Under FailFast a push of 2 bytes onto 1 byte under a HWM of 2 has returned
\* IoError while the other thread is inside a pop that had to wait.
C18_Witness ==
  /\ q_policy = "kFailFast"
  /\ q_hwm = 2
  /\ q_total = 1
  /\ q_res = [op |-> "push", code |-> "kIoError", id |-> 0, size |-> 2]
  /\ \E t \in QThreads : q_thr[t].op = "pop_wait"

\* C19: under Block, with a HWM, a push that finds the open queue at or above
\* the mark starts to wait and neither enqueues nor returns; a waiting push
\* returns Ok only when the byte total is below the mark, Timeout only if it
\* has a timeout and Closed only if the queue is closed, in both cases with
\* the queue as it was.
C19_BlockWaitsForSpace ==
  [][\A t \in QThreads :
       /\ (/\ q_policy = "kBlock" /\ q_hwm > 0 /\ ~q_closed /\ q_total >= q_hwm
           /\ q_nextId' = q_nextId + 1
           /\ q_thr[t].op = "idle" /\ q_thr'[t] # q_thr[t])
          => /\ q_thr'[t].op = "push_wait"
             /\ UNCHANGED <<q_queue, q_total, q_res>>
       /\ (q_thr[t].op = "push_wait" /\ q_thr'[t].op = "idle")
          => /\ q_res'.op = "push"
             /\ q_res'.code \in {"kOk", "kTimeout", "kClosed"}
             /\ q_res'.code = "kOk" => q_total < q_hwm
             /\ q_res'.code = "kTimeout" => (q_thr[t].timeout > 0 /\ UNCHANGED <<q_queue, q_total>>)
             /\ q_res'.code = "kClosed" => (q_closed /\ UNCHANGED <<q_queue, q_total>>)]_vars

\* The call of pop by thread t, made with the given timeout, returns in this
\* step (rather than starting or continuing to wait).
QPopReturns(t, timeout) ==
  /\ \/ QPop(t, timeout)
     \/ (q_thr[t].timeout = timeout /\ (QPopWake(t) \/ QPopTimeout(t)))
  /\ q_thr'[t].op = "idle"

\* C20: a pop that returns a message returns the oldest message that has not
\* expired; it returns Timeout only if it was called with a non-zero timeout
\* and no unexpired message is queued, and Closed only if the queue is closed
\* and holds no unexpired message; called with timeout 0 it therefore returns
\* only a message or Closed.
C20_PopOldestOrWaits ==
  [][\A t \in QThreads, timeout \in QTimeouts :
       QPopReturns(t, timeout) =>
         LET live == QPurgeAll(q_queue)
         IN /\ q_res'.op = "pop"
            /\ q_res'.code \in {"kOk", "kTimeout", "kClosed"}
            /\ q_res'.code = "kOk" => (live # <<>> /\ q_res'.id = Head(live).id)
            /\ q_res'.code = "kTimeout" => (timeout > 0 /\ live = <<>>)
            /\ q_res'.code = "kClosed" => (q_closed /\ live = <<>>)]_vars

\* A queue under the Block policy with a high-water mark, where both pushes and
\* pops can block.
QueueBlockInit ==
  /\ QInit /\ q_policy = "kBlock" /\ q_hwm > 0
  /\ CIdle /\ WIdle /\ SIdle /\ PIdle /\ KIdle("none") /\ OIdle /\ DIdle /\ BIdle /\ RIdle

\* A thread that has been notified, or whose predicate became true, gets to
\* run again.
SpecQueueClose ==
  /\ QueueBlockInit
  /\ [][QNext]_vars
  /\ \A t \in QThreads : WF_vars(QPushWake(t)) /\ WF_vars(QPopWake(t))

\* C21: once the queue is closed, a blocked push that returns returns Closed
\* and a blocked pop that returns from an empty queue returns Closed, a new
\* push returns Closed at once, none of them changes the queue, and every
\* thread blocked in push or pop eventually returns.
C21_CloseReleasesWaiters ==
  /\ [][q_closed =>
          \A t \in QThreads :
            /\ (q_thr[t].op = "push_wait" /\ q_thr'[t].op = "idle")
                 => /\ q_res' = [op |-> "push", code |-> "kClosed", id |-> 0,
                                 size |-> q_thr[t].size]
                    /\ UNCHANGED <<q_queue, q_total>>
            /\ (q_thr[t].op = "pop_wait" /\ q_thr'[t].op = "idle" /\ q_queue = <<>>)
                 => /\ q_res'.op = "pop" /\ q_res'.code = "kClosed"
                    /\ UNCHANGED <<q_queue, q_total>>
            /\ (q_nextId' = q_nextId + 1 /\ q_thr[t].op = "idle")
                 => /\ q_res'.op = "push" /\ q_res'.code = "kClosed"
                    /\ q_thr' = q_thr
                    /\ UNCHANGED <<q_queue, q_total>>]_vars
  /\ \A t \in QThreads :
       (q_closed /\ q_thr[t].op \in {"push_wait", "pop_wait"}) ~> (q_thr[t].op = "idle")

\* The queue has been closed while one thread was blocked in push and the
\* other in pop; close has notified both.
C21_Witness ==
  /\ q_closed
  /\ \E t \in QThreads : q_thr[t].op = "push_wait" /\ q_thr[t].woken
  /\ \E t \in QThreads : q_thr[t].op = "pop_wait" /\ q_thr[t].woken

\* A reconnect pipe with max_attempts 1 or 2, a thread that sends and a
\* thread that closes; a thread in wait_connected whose predicate is true
\* gets to run.
LatchInit ==
  /\ PInitWith({1, 2}, {-1}, {{"b"}})
  /\ QIdleInit /\ CIdle /\ WIdle /\ SIdle /\ KIdle("reconnect") /\ OIdle /\ DIdle /\ BIdle /\ RIdle

SpecLatch ==
  /\ LatchInit
  /\ [][PNext]_vars
  /\ WF_vars(\E c \in PCallers : PWaitConnected(c))

\* C22: with max_attempts = N > 0 the dialler is called in a connect episode
\* only while fewer than N attempts of the episode have failed; permanent
\* failure is latched with exactly N failed attempts and no pipe installed,
\* stays latched, and no dial follows it; once the worker has returned the
\* state is Disconnected unless the pipe is closed; a send or recv that waits
\* for a connection then returns, with IoError, or Closed once the pipe is
\* closed.
C22_LatchAfterMaxAttempts ==
  /\ [](/\ p_thr["w"].pc = "dial" => p_attempts < p_max
        /\ p_failed => (p_max > 0 /\ p_attempts = p_max /\ p_inner = 0)
        /\ (p_failed /\ p_thr["w"].pc = "done" /\ ~p_closed) => p_state = "kDisconnected")
  /\ [][p_failed =>
          /\ p_failed' /\ p_dials' = p_dials /\ p_inner' = 0
          /\ \A c \in PCallers :
               (p_thr[c].pc = "wait" /\ p_thr'[c] # p_thr[c])
                 => /\ p_thr'[c].pc = "idle"
                    /\ p_res'.code = IF p_closed THEN "kClosed" ELSE "kIoError"]_vars
  /\ \A c \in PCallers : (p_failed /\ p_thr[c].pc = "wait") ~> (p_thr[c].pc = "idle")

\* Two attempts out of two have failed, the failure is latched, the worker has
\* returned with the state Disconnected, and a send has returned IoError.
C22_Witness ==
  /\ p_max = 2
  /\ p_dials = 2
  /\ p_failed
  /\ ~p_closed
  /\ p_thr["w"].pc = "done"
  /\ p_state = "kDisconnected"
  /\ p_thr["a"].pc = "idle"
  /\ p_res = [code |-> "kIoError", passed |-> 0]

\* C23: a send or recv returns Closed only from wait_connected with the pipe
\* closed and IoError only from wait_connected with permanent failure latched;
\* what it returns from a call of the inner pipe is Ok, Timeout or an error
\* that is not Closed or IoError, and that return leaves the installed pipe
\* and the state as they are; after an inner Closed or IoError nothing is
\* returned, mark_disconnected takes that pipe out if the supervisor is open
\* and the operation goes back to wait for a connection.
C23_DisconnectErrorsNotSurfaced ==
  [][\A c \in PCallers :
       /\ (p_thr[c].pc # "idle" /\ p_thr'[c].pc = "idle")
            => /\ p_thr[c].pc \in {"wait", "inner"}
               /\ p_res'.code = "kClosed" => (p_closed /\ p_thr[c].pc = "wait")
               /\ p_res'.code = "kIoError" => (p_failed /\ p_thr[c].pc = "wait")
               /\ p_thr[c].pc = "inner"
                    => /\ p_res'.code \in PInnerCodes \ {"kClosed", "kIoError"}
                       /\ UNCHANGED <<p_inner, p_state, p_pipes>>
       /\ (p_thr[c].pc = "inner" /\ p_thr'[c].pc \notin {"inner", "idle"})
            => (p_thr'[c].pc = "mark" /\ UNCHANGED <<p_res, p_inner, p_state>>)
       /\ (p_thr[c].pc = "mark" /\ p_thr'[c] # p_thr[c])
            => /\ ~p_closed => p_inner' # p_thr[c].snap
               /\ p_thr'[c].pc \in {"wait", "set_state"}
               /\ p_thr'[c].pc = "set_state" => p_thr'[c].ret = "closeold"
               /\ UNCHANGED p_res
       /\ (p_thr[c].pc = "closeold" /\ p_thr'[c] # p_thr[c])
            => (p_thr'[c].pc = "wait" /\ UNCHANGED p_res)]_vars

\* A send whose first inner call failed with a disconnect error on pipe 1 has
\* been issued again on pipe 2 and has returned Ok.
C23_Witness ==
  /\ p_dials = 2
  /\ p_inner = 2
  /\ ~p_pipes[1]
  /\ ~p_closed
  /\ p_thr["a"].pc = "idle"
  /\ p_res = [code |-> "kOk", passed |-> 2]

QosInit == OInit /\ QIdleInit /\ CIdle /\ WIdle /\ SIdle /\ PIdle /\ KIdle("none") /\ DIdle /\ BIdle /\ RIdle

SpecQos == QosInit /\ [][ONext]_vars

OIds(s) == [i \in 1..Len(s) |-> s[i].id]

OIncreasing(s) == \A i, j \in 1..Len(s) : i < j => s[i] < s[j]

\* The send in progress returns in this step.
OSendReturns ==
  /\ o_call'.pc = "idle"
  /\ o_call.pc # "idle" \/ o_nextId' = o_nextId + 1

\* C15: the messages the underlying send has accepted, followed by those
\* still queued, are messages given to send, in the order they were given and
\* each once; a DropOld send removes at most the oldest entry and appends its
\* own, a send that drops its own message leaves the queue as it was, and a
\* turn of the worker leaves the remaining entries in their order.
C15_QosFifo ==
  [][/\ OIncreasing(o_sent' \o OIds(o_queue'))
     /\ \A i \in 1..Len(o_sent') : o_sent'[i] \in 1..(o_nextId' - 1)
     /\ (OSendReturns /\ o_res'.queued)
          => /\ o_queue' # <<>>
             /\ o_queue'[Len(o_queue')].id = o_res'.id
             /\ SubSeq(o_queue', 1, Len(o_queue') - 1) \in
                  (IF o_policy = "kDropOld" /\ o_queue # <<>>
                     THEN {o_queue, Tail(o_queue)} ELSE {o_queue})
     /\ (OSendReturns /\ ~o_res'.queued) => o_queue' = o_queue]_vars

\* Under DropOld, without TTL, on a running pipe: messages 1 and 3 have
\* reached the underlying pipe and message 2, enqueued between them, was
\* dropped from the front of the queue.
C15_Witness ==
  /\ o_policy = "kDropOld"
  /\ o_ttl = 0
  /\ o_running
  /\ o_sent = <<1, 3>>
  /\ o_nextId = 4
  /\ o_call.pc = "idle"

\* C16: with snd_hwm_bytes = 0, under every policy, a send that returns while
\* the pipe is running returns Ok with its message enqueued, and the worker
\* never holds a queued message back for the high-water mark.
C16_ZeroHwmNoLimit ==
  [][o_hwm = 0 =>
       /\ (OSendReturns /\ o_running) => (o_res'.code = "kOk" /\ o_res'.queued)
       /\ o_wpc' # "sleep"]_vars

\* C24: under Block, a send that finds the queued bytes at or above the mark
\* on a running pipe starts to wait without enqueuing; when its wait ends it
\* returns Ok, with its message enqueued, only if the bytes are below the
\* mark, Timeout only if it was called with a non-zero timeout, and Closed,
\* never anything else, if the pipe was closed meanwhile; Timeout and Closed
\* leave the queue as it was.
C24_QosBlockWaits ==
  [][o_policy = "kBlock" =>
       /\ (o_call.pc = "lock" /\ o_bytes >= o_hwm /\ o_running /\ o_call' # o_call)
            => (o_call'.pc = "wait" /\ UNCHANGED <<o_queue, o_bytes, o_count, o_res>>)
       /\ (o_call.pc = "wait" /\ o_call'.pc = "idle")
            => /\ o_res'.code \in {"kOk", "kTimeout", "kClosed"}
               /\ o_res'.code = "kOk" => (o_res'.queued /\ o_bytes < o_hwm)
               /\ o_res'.code = "kTimeout" => o_call.timeout > 0
               /\ o_closed => o_res'.code = "kClosed"
               /\ o_res'.code # "kOk" => UNCHANGED <<o_queue, o_bytes, o_count>>]_vars

\* A turn of the worker in which it has called underlying_->send.
OTried == OWorkerTurn /\ o_last'.id # 0

\* C25: the worker passes to the inner send the oldest queued message that has
\* not expired. When the inner send returns Closed or IoError the worker
\* clears running_ and ends, with the queue and the sent messages as they
\* were; once it has ended no inner send is called, and a send called with
\* running_ cleared returns Closed without enqueuing. When the inner send
\* fails with another status the message stays at the front of the queue
\* and nothing is sent.
C25_WorkerFailureHandling ==
  [][/\ OTried =>
          LET kept == ORemoveExpired(o_queue)
          IN /\ kept # <<>> /\ o_last'.id = Head(kept).id
             /\ o_last'.code \in {"kClosed", "kIoError"}
                  => /\ ~o_running' /\ o_wpc' = "done"
                     /\ o_queue' = kept /\ o_sent' = o_sent
             /\ o_last'.code \notin {"kOk", "kClosed", "kIoError"}
                  => /\ o_queue' = kept /\ o_sent' = o_sent
                     /\ o_wpc' = "loop" /\ o_running'
     /\ o_wpc = "done" => (o_wpc' = "done" /\ o_sent' = o_sent /\ o_last' = o_last)
     /\ ~o_running => ~o_running'
     /\ (~o_running /\ o_call.pc = "idle" /\ o_nextId' = o_nextId + 1)
          => /\ o_res' = [code |-> "kClosed", id |-> o_nextId, queued |-> FALSE]
             /\ o_call' = o_call
             /\ UNCHANGED <<o_queue, o_bytes, o_count>>]_vars

\* The inner send has returned IoError for message 2 after message 1 was
\* sent: the worker has ended with message 2 still queued, the pipe has not
\* been closed by its user, and a later send has returned Closed.
C25_Witness ==
  /\ o_last = [id |-> 2, code |-> "kIoError"]
  /\ o_sent = <<1>>
  /\ o_wpc = "done"
  /\ ~o_closed
  /\ o_queue # <<>> /\ Head(o_queue).id = 2
  /\ o_res = [code |-> "kClosed", id |-> 3, queued |-> FALSE]

\* C26: once close has returned the worker thread has ended, and from then on
\* the worker calls no inner send.
C26_QosCloseJoins ==
  [][ /\ o_closed' => o_wpc' = "done"
      /\ o_closed => (o_sent' = o_sent /\ o_last' = o_last) ]_vars

DrainInit ==
  OInitWith({"ok"}) /\ QIdleInit /\ CIdle /\ WIdle /\ SIdle /\ PIdle /\ KIdle("none") /\ DIdle /\ BIdle /\ RIdle

ODrainNext ==
  \/ OSendStep
  \/ OWorkerTurn
  \/ OWorkerWake
  \/ OTick

\* The pipe is never closed and the underlying send always succeeds; the
\* worker thread is scheduled whenever it can run.
SpecQosDrain ==
  DrainInit /\ [][ODrainNext]_vars /\ WF_vars(OWorkerTurn) /\ WF_vars(OWorkerWake)

OQueued(id) == \E i \in 1..Len(o_queue) : o_queue[i].id = id

\* C14: while the pipe is open and the underlying send succeeds, every message
\* in the send queue eventually leaves it: the worker passes it to the
\* underlying send unless DropOld or its TTL removes it first.
C14_WorkerDrains ==
  \A id \in 1..MaxOSends : OQueued(id) ~> ~OQueued(id)

DispatchInit ==
  DInit /\ QIdleInit /\ CIdle /\ WIdle /\ SIdle /\ PIdle /\ KIdle("none") /\ OIdle /\ BIdle /\ RIdle

SpecDispatch == DispatchInit /\ [][DNext]_vars

\* The schemes a host's listen and dial can serve.
DServed(a) == {"kTcp", "kShm"} \cup (IF a.win THEN {"kPipe"} ELSE {})

\* C27: a dial whose address parses and names a served scheme returns, with
\* reconnect enabled, a pipe whose outermost layer is the reconnect
\* supervisor, whether or not the transport's connect succeeds, and with
\* reconnect disabled the connect's error if it fails; the transport's pipe
\* is wrapped in a QoS pipe when QoS is enabled, and the layers are in the
\* order reconnect, QoS, transport.
C27_DialComposesWrappers ==
  (d_in.op = "dial" /\ d_out # DNoOut /\ DParse(d_in) = "kOk" /\ DRoute(d_in) # "none")
    => /\ d_in.reconnect
            => /\ d_out.status = "kOk"
               /\ d_out.layers # <<>> /\ Head(d_out.layers) = "reconnect"
       /\ (~d_in.reconnect /\ DTransport(d_in) # "kOk")
            => (d_out.status = DTransport(d_in) /\ d_out.layers = <<>>)
       /\ d_out.status = "kOk"
            => d_out.layers =
                 (IF d_in.reconnect THEN <<"reconnect">> ELSE <<>>)
                   \o (IF DQosEnabled(d_in) THEN <<"qos">> ELSE <<>>)
                   \o <<DRoute(d_in)>>

BootstrapInit ==
  BInit /\ QIdleInit /\ CIdle /\ WIdle /\ SIdle /\ PIdle /\ KIdle("none") /\ OIdle /\ DIdle /\ RIdle

SpecBootstrap == BootstrapInit /\ [][BNext]_vars

\* Every accepted pipe is bound to the region of the dial call whose
\* connection it was accepted on, no two accepted pipes are bound to the same
\* region, and a message is received only on the connection it was sent on.
BBoundToOwnDialler ==
  /\ \A i \in 1..Len(b_pipes) : b_pipes[i].region = b_pipes[i].conn
  /\ \A i, j \in 1..Len(b_pipes) : i # j => b_pipes[i].region # b_pipes[j].region
  /\ \A g \in b_got : g.from = g.conn

BDrawn == {d \in BDiallers : b_dial[d].pc # "idle"}

BLinked(d) == b_names[make_names(b_dial[d].connid)] = d

AccountingInit ==
  /\ \/ QInit /\ OIdle
     \/ QIdleInit /\ OInit
  /\ CIdle /\ WIdle /\ SIdle /\ PIdle /\ KIdle("none") /\ DIdle /\ BIdle /\ RIdle

AccountingNext ==
  \/ OIdle /\ QNext
  \/ QIdleInit /\ ONext

SpecAccounting == AccountingInit /\ [][AccountingNext]_vars

\* C32: total_bytes_ is the sum of the sizes of the entries in queue_ (whose
\* length is the count size_msgs() returns), send_bytes_ is the sum of the
\* sizes of the entries in send_queue_ and send_count_ is its length.
C32_TotalsMatchQueue ==
  /\ q_total = SumSizes(q_queue)
  /\ o_bytes = SumSizes(o_queue)
  /\ o_count = Len(o_queue)

\* A QosPipe under DropOld with TTL has taken three sends; none has gone to
\* the inner pipe, the first two have left the queue by drop-old or by expiry,
\* and the third, of 2 bytes, is queued.
C32_Witness ==
  /\ o_policy = "kDropOld" /\ o_ttl = 1 /\ o_hwm = 2
  /\ o_nextId = 4 /\ o_call = OCallIdle
  /\ o_sent = <<>>
  /\ Len(o_queue) = 1 /\ o_queue[1].id = 3 /\ o_queue[1].size = 2
  /\ o_bytes = 2 /\ o_count = 1

\* The push calls blocked in their wait and not yet notified.
QBlockedPush == QWaiters(q_thr, "push_wait")

\* C33: a step that removes bytes from the queue while pushes are blocked
\* wakes at least one of them (not-full is signalled), and a step that
\* enqueues a message while pops are blocked wakes at least one of them
\* (not-empty is signalled); this is what lets a blocked push whose wait
\* condition has become true go on.
C33_RemovalsSignalNotFull ==
  /\ [][(q_total' < q_total /\ QBlockedPush # {})
          => \E t \in QBlockedPush : q_thr'[t].woken \/ q_thr'[t].op # "push_wait"]_vars
  /\ [][(Len(q_queue') > 0 /\ q_res'.op = "push" /\ q_res'.code = "kOk"
           /\ q_nextId' # q_nextId /\ q_queue' # q_queue
           /\ QWaiters(q_thr, "pop_wait") # {})
          => \E t \in QWaiters(q_thr, "pop_wait") :
               q_thr'[t].woken \/ q_thr'[t].op # "pop_wait"]_vars

\* The deadline of entry e has passed: TTL is enabled and the clock is beyond
\* the entry's enqueue time plus TTL.
QDeadlinePassed(e) == q_ttl > 0 /\ q_now > e.deadline

\* The entry of queue s that carries message id.
QEntryOf(s, id) == CHOOSE e \in {s[i] : i \in 1..Len(s)} : e.id = id

\* C34: a pop or try_pop that returns a message returns one whose deadline
\* has not passed; purge_expired leaves exactly the entries whose deadline has
\* not passed, in their order, and returns the number of entries it removed;
\* with TTL 0 every entry has the zero deadline, and purge_expired returns 0
\* and leaves the queue and the byte total as they are.
C34_TtlExpiry ==
  /\ [][\A t \in QThreads :
          ((QTryPop(t) \/ \E timeout \in QTimeouts : QPopReturns(t, timeout))
             /\ q_res'.code = "kOk")
            => /\ \E i \in 1..Len(q_queue) : q_queue[i].id = q_res'.id
               /\ ~QDeadlinePassed(QEntryOf(q_queue, q_res'.id))]_vars
  /\ [][\A t \in QThreads :
          QPurgeExpired(t)
            => /\ q_queue' = SelectSeq(q_queue, LAMBDA e : ~QDeadlinePassed(e))
               /\ q_res' = [op |-> "purge_expired", code |-> "count",
                            id |-> Len(q_queue) - Len(q_queue'), size |-> 0]
               /\ q_ttl = 0 => (q_res'.id = 0 /\ UNCHANGED <<q_queue, q_total>>)]_vars
  /\ [](q_ttl = 0 => \A i \in 1..Len(q_queue) : q_queue[i].deadline = 0)

\* With TTL 1 purge_expired has removed one entry whose deadline had passed
\* and kept a younger one.
C34_Witness ==
  /\ q_ttl = 1
  /\ q_res = [op |-> "purge_expired", code |-> "count", id |-> 1, size |-> 0]
  /\ Len(q_queue) = 1 /\ q_queue[1].id = 2 /\ q_queue[1].deadline >= q_now

BackoffInit ==
  RInit /\ QIdleInit /\ CIdle /\ WIdle /\ SIdle /\ PIdle /\ KIdle("none") /\ OIdle /\ DIdle /\ BIdle

SpecBackoff == BackoffInit /\ [][RNext]_vars

\* The base delay before the k-th retry of an episode: initial_delay, then the
\* previous one times the multiplier, rounded down and capped at max_delay.
RECURSIVE RBaseDelay(_, _)
RBaseDelay(e, k) ==
  IF k = 1 THEN e.initial
  ELSE LET prev == RBaseDelay(e, k - 1)
       IN IF (prev * e.mult[1]) \div e.mult[2] < e.maxd
            THEN (prev * e.mult[1]) \div e.mult[2] ELSE e.maxd

\* C35: while the worker waits before its k-th retry the base delay is
\* RBaseDelay(k) and the wait asked for lies between the base delay and one and
\* a half times the base delay; a wait that ended before its time ended
\* because the pipe was closed, and otherwise lasted exactly the time asked
\* for; a new episode starts with no attempts made and the delay at
\* initial_delay.
C35_BackoffDelays ==
  /\ [](r_ep.pc = "sleeping"
          => /\ r_ep.attempts >= 1
             /\ r_ep.delay = RBaseDelay(r_ep, r_ep.attempts)
             /\ r_ep.delay <= r_ep.sleep_for
             /\ 2 * (r_ep.sleep_for - r_ep.delay) <= r_ep.delay
             /\ r_ep.waited <= r_ep.sleep_for)
  /\ [][(r_ep.pc = "sleeping" /\ r_ep'.pc # "sleeping")
          => /\ r_ep'.cut => r_ep.closed
             /\ ~r_ep'.cut => r_ep.waited = r_ep.sleep_for
             /\ r_ep.closed => r_ep'.pc = "done"]_vars
  /\ [][(r_ep.pc = "connected" /\ r_ep'.pc = "dial")
          => (r_ep'.attempts = 0 /\ r_ep'.delay = r_ep.initial)]_vars

\* In its second episode, with initial_delay 3, max_delay 5 and multiplier
\* 3/2, the worker waits before its third retry: the base delays were 3, 4 and
\* 5, and the wait asked for is 7.
C35_Witness ==
  /\ r_ep.initial = 3 /\ r_ep.maxd = 5 /\ r_ep.mult = <<3, 2>>
  /\ r_ep.episode = 2
  /\ r_ep.pc = "sleeping" /\ r_ep.attempts = 3
  /\ r_ep.delay = 5 /\ r_ep.sleep_for = 7 /\ r_ep.waited = 7

\* a - b on std::uint32_t, byte by byte with borrow.
U32Sub(a, b) ==
  LET d4 == a[4] - b[4]
      d3 == a[3] - b[3] - (IF d4 < 0 THEN 1 ELSE 0)
      d2 == a[2] - b[2] - (IF d3 < 0 THEN 1 ELSE 0)
      d1 == a[1] - b[1] - (IF d2 < 0 THEN 1 ELSE 0)
  IN <<(d1 + 256) % 256, (d2 + 256) % 256, (d3 + 256) % 256, (d4 + 256) % 256>>

\* head - tail.
RingFill == U32Sub(s_head, s_tail)

\* 1 for a call that is between its semaphore wait and its semaphore post.
SInFlight(pc) == IF pc \in {"len", "copy1", "copy2", "store", "post"} THEN 1 ELSE 0

\* C36: head - tail is between 0 and 64; items + spaces + the calls between
\* their wait and their post is 64; a recv reads the slot at tail only while
\* head differs from tail; and every write to a slot is a write to the slot at
\* head made while fewer than 64 messages are unconsumed.
C36_RingInvariants ==
  /\ [](/\ RingFill[1] = 0 /\ RingFill[2] = 0 /\ RingFill[3] = 0 /\ RingFill[4] <= kSlotCount
        /\ s_items + s_spaces + SInFlight(s_spc) + SInFlight(s_rpc) = kSlotCount
        /\ s_rpc \in {"len", "copy1", "copy2"} => s_head # s_tail
        /\ s_rpc \in {"copy1", "copy2", "store"} => s_rtail = s_tail)
  /\ [][\A i \in 0..(kSlotCount - 1) :
          s_slots'[i] # s_slots[i] => (i = SlotIdx(s_head) /\ RingFill[4] < kSlotCount)]_vars

\* The ring that started at 2^32 - 2 is full, its counters on both sides of
\* the wrap; a recv is half way through copying the oldest message out while
\* the 66th send waits for a space.
C36_Witness ==
  /\ s_tail = <<255, 255, 255, 255>>
  /\ s_head = <<0, 0, 0, 63>>
  /\ Len(s_sent) = 65 /\ Len(s_recvd) = 1
  /\ s_rpc = "copy2" /\ s_spc = "wait"
  /\ s_spaces = 0 /\ s_items = 63

QosStallInit ==
  /\ OInitWith({"ok", "stalled"})
  /\ QIdleInit /\ CIdle /\ WIdle /\ SIdle /\ PIdle /\ KIdle("none") /\ DIdle /\ BIdle /\ RIdle

SpecQosStall == QosStallInit /\ [][OStallNext]_vars

\* C37: with an inner pipe whose send never returns, a DropNew or FailFast
\* send that has reached send_mutex_ can take it and return, and close can
\* take it, clear running_ and go on to close the inner pipe.
C37_CallersDoNotWaitForInner ==
  o_inner = "stalled"
    => /\ (o_call.pc = "lock" /\ o_policy \in {"kDropNew", "kFailFast"}) => ENABLED OSendTakesLock
       /\ ~o_closed => ENABLED OCloseTakesLock

\* C38: once close has returned, no inner pipe is installed and every pipe
\* the dialler has returned is closed.
C38_CloseLeavesNothingOpen ==
  (p_closed /\ p_thr["x"].pc = "idle")
    => (p_inner = 0 /\ \A i \in 1..Len(p_pipes) : ~p_pipes[i])

\* Bound: the send calls on a ring whose region another process writes to.
MaxForeignSends == 3

\* A process that has the region mapped and does not go through ShmPipe::send
\* writes a length above kSlotPayloadMax into the len field of the oldest
\* published slot: the case recv's test of len is there for.
ShmForeignLen ==
  /\ s_head # s_tail
  /\ s_slots[SlotIdx(s_tail)].len <= kSlotPayloadMax
  /\ s_slots' = [s_slots EXCEPT ![SlotIdx(s_tail)].len = kSlotPayloadMax + 1]
  /\ UNCHANGED <<s_head, s_tail, s_spaces, s_items, s_spc, s_smsg, s_stimeout, s_shead, s_calls,
                 s_sres, s_rpc, s_rtimeout, s_rtail, s_rlen, s_rbuf, s_rres, s_sent, s_recvd>>
  /\ UNCHANGED nons

\* A ring with a sender of at most MaxForeignSends messages (it never fills,
\* so no send times out), a receiver, and a foreign writer.
ForeignNext ==
  \/ \E timeout \in ShmTimeouts : s_calls < MaxForeignSends /\ ShmSend(timeout)
  \/ ShmSendWait
  \/ ShmSendLen
  \/ ShmSendCopy
  \/ ShmSendStore
  \/ ShmSendPost
  \/ \E timeout \in ShmTimeouts : ShmRecv(timeout)
  \/ ShmRecvWait
  \/ ShmRecvTimeout
  \/ ShmRecvLen
  \/ ShmRecvCopy
  \/ ShmRecvStore
  \/ ShmRecvPost
  \/ ShmForeignLen

ForeignInit ==
  SInit /\ QIdleInit /\ CIdle /\ WIdle /\ PIdle /\ KIdle("none") /\ OIdle /\ DIdle /\ BIdle /\ RIdle

SpecRingForeign == ForeignInit /\ [][ForeignNext]_vars

\* The messages published and not consumed that the items semaphore should
\* count: head - tail, less one while the sender is between its store of head
\* and its post.
RingItems(head, tail, spc) == U32Sub(head, tail)[4] - (IF spc = "post" THEN 1 ELSE 0)

\* The free slots the spaces semaphore should count: 64 less head - tail, less
\* one while the sender holds a space it has not published.
RingSpaces(head, tail, spc) ==
  kSlotCount - U32Sub(head, tail)[4]
    - (IF spc \in {"len", "copy1", "copy2", "store"} THEN 1 ELSE 0)

\* C39: a recv that returns Timeout or ProtocolError has not moved tail and
\* hands back what it took: if the semaphores agreed with head - tail while
\* the call ran, counting an item the call had taken, then they agree with
\* head - tail when it has returned.
C39_FailedRecvLeavesRing ==
  [][(/\ s_rpc # "idle" /\ s_rpc' = "idle"
      /\ s_rres' \in {"kTimeout", "kProtocolError"}
      /\ s_items + SInFlight(s_rpc) = RingItems(s_head, s_tail, s_spc)
      /\ s_spaces = RingSpaces(s_head, s_tail, s_spc))
       => /\ s_tail' = s_tail
          /\ s_items' = RingItems(s_head', s_tail', s_spc')
          /\ s_spaces' = RingSpaces(s_head', s_tail', s_spc')]_vars

\* C40: every store of head and of tail, the one from 2^32 - 1 to 0
\* included, moves the index to the next slot mod 64; the messages received
\* are the first messages sent, in order; at most 64 messages are in the ring,
\* and a send finds no space only when 64 slots are in use.
C40_IndexAcrossWrap ==
  /\ [][/\ s_head' # s_head => SlotIdx(s_head') = (SlotIdx(s_head) + 1) % kSlotCount
        /\ s_tail' # s_tail => SlotIdx(s_tail') = (SlotIdx(s_tail) + 1) % kSlotCount]_vars
  /\ [](/\ Len(s_recvd) <= Len(s_sent)
        /\ s_recvd = SubSeq(s_sent, 1, Len(s_recvd))
        /\ Len(s_sent) - Len(s_recvd) <= kSlotCount
        /\ (s_spc = "wait" /\ s_spaces = 0)
             => U32Sub(s_head, s_tail)[4] + (IF s_rpc = "post" THEN 1 ELSE 0) = kSlotCount)

\* Three messages have been sent from 2^32 - 2 on, into slots 62, 63 and 0, and
\* tail has not wrapped yet: the second message, in slot 63, is the next to be
\* received and the third, of 65536 bytes, lies in slot 0.
C40_Witness ==
  /\ s_head = <<0, 0, 0, 1>>
  /\ s_tail = <<255, 255, 255, 255>>
  /\ Len(s_sent) = 3 /\ Len(s_recvd) = 1
  /\ s_slots[63].len = 2
  /\ s_slots[0].len = 65536
  /\ s_slots[0].data = s_sent[3]
  /\ s_spc = "idle" /\ s_rpc = "idle"

WireInit == WInit /\ CIdle /\ QIdleInit /\ SIdle /\ PIdle /\ KIdle("none") /\ OIdle /\ DIdle /\ BIdle /\ RIdle

SpecWire == WireInit /\ [][WNext]_vars

\* Bound: the number of send calls of a sender that chooses the size of each
\* message.
MaxSizeSends == 3

\* The messages of that sender: empty, kSlotPayloadMax bytes, one byte more.
ShmSizeMsgs == {<<>>, Run(kSlotPayloadMax, 7), Run(kSlotPayloadMax + 1, 9)}

ShmSendSized(msg, timeout) == s_calls < MaxSizeSends /\ ShmSendMsg(msg, timeout)

\* The sending side of a ring next to the writing side of a stream; with at
\* most MaxSizeSends sends the ring never fills, so no send times out.
SizesNext ==
  \/ \E msg \in ShmSizeMsgs, timeout \in ShmTimeouts : ShmSendSized(msg, timeout)
  \/ ShmSendWait
  \/ ShmSendLen
  \/ ShmSendCopy
  \/ ShmSendStore
  \/ ShmSendPost
  \/ \E msg \in WMsgs, flags \in WFlags : WWriteFrame(msg, flags)
  \/ \E k \in WChunks(BLen(w_wbuf)) : WSend(k)
  \/ WSendEintr

\* The stream has a writer that uses write_frame; its reader takes no step.
SizesInit ==
  SInit /\ WInit /\ ~w_raw /\ ~w_rLE /\ CIdle /\ QIdleInit /\ PIdle /\ KIdle("none") /\ OIdle /\ DIdle /\ BIdle /\ RIdle

SpecSizes == SizesInit /\ [][SizesNext]_vars

\* C29: a send of more than 65536 bytes returns InvalidArgument at once and
\* leaves head, the slots, both semaphores and the list of sent messages as
\* they were, and a write_frame of more than 65536 bytes returns
\* InvalidArgument with the stream untouched and nothing left to write; a
\* message of 0 or of exactly 65536 bytes passes the size check of both (the
\* send goes on to wait for a space, write_frame to write the header), and
\* whatever either has sent has at most 65536 bytes.
C29_OversizeRejected ==
  /\ [][\A msg \in ShmSizeMsgs, timeout \in ShmTimeouts :
          ShmSendSized(msg, timeout) =>
            IF BLen(msg) > 65536
              THEN /\ s_sres' = "kInvalidArgument" /\ s_spc' = "idle"
                   /\ UNCHANGED <<s_head, s_slots, s_spaces, s_items, s_sent>>
              ELSE s_spc' = "wait" /\ s_smsg' = msg]_vars
  /\ [][\A msg \in WMsgs, flags \in WFlags :
          WWriteFrame(msg, flags) =>
            IF BLen(msg) > 65536
              THEN /\ w_wres' = "kInvalidArgument" /\ w_wpc' = "idle"
                   /\ UNCHANGED <<w_stream, w_wbuf, w_sent>>
              ELSE w_wpc' = "hdr" /\ w_wmsg' = msg /\ w_stream' = w_stream]_vars
  /\ [](/\ \A i \in 1..Len(s_sent) : BLen(s_sent[i]) <= 65536
        /\ \A i \in 1..Len(w_sent) : BLen(w_sent[i]) <= 65536
        /\ BLen(w_stream) <= Len(w_sent) * (16 + 65536) + 16 + 65536)

\* The ring has taken a message of 65536 bytes and an empty one and refused a
\* third of 65537 bytes, with two spaces used; the stream has taken a frame of
\* 65536 bytes and write_frame has refused one of 65537.
C29_Witness ==
  /\ s_sent = <<Run(kSlotPayloadMax, 7), <<>> >>
  /\ s_calls = 3 /\ s_sres = "kInvalidArgument" /\ s_spc = "idle"
  /\ s_spaces = kSlotCount - 2 /\ s_items = 2
  /\ w_sent = <<Run(kMaxFramePayload, 120)>>
  /\ w_calls = 2 /\ w_wres = "kInvalidArgument" /\ w_wpc = "idle"
  /\ BLen(w_stream) = 16 + 65536

RingInit == SInit /\ QIdleInit /\ CIdle /\ WIdle /\ PIdle /\ KIdle("none") /\ OIdle /\ DIdle /\ BIdle /\ RIdle

SpecRing == RingInit /\ [][SNext]_vars

\* C2: the payloads the recv calls have returned are, in order, the payloads
\* of the first successful sends: the i-th successful recv returns exactly the
\* bytes of the i-th successful send.
C2_RingFifo ==
  /\ Len(s_recvd) <= Len(s_sent)
  /\ \A i \in 1..Len(s_recvd) : s_recvd[i] = s_sent[i]

\* 66 messages have gone through a ring whose counters started at 2^32 - 2:
\* every slot has been used, the first two twice, and the counters have wrapped.
C2_Witness ==
  /\ Len(s_recvd) = 66
  /\ s_tail = <<0, 0, 0, 64>>
  /\ s_recvd[64] = <<>>
  /\ s_recvd[66] = Run(65536, 67)

\* One direction of a connection whose peer never calls recv.
SSendNext ==
  \/ \E timeout \in ShmTimeouts : ShmSend(timeout)
  \/ ShmSendWait
  \/ ShmSendTimeout
  \/ ShmSendLen
  \/ ShmSendCopy
  \/ ShmSendStore
  \/ ShmSendPost

SpecRingNoRecv == RingInit /\ [][SSendNext]_vars

\* C13: without a receiver, each of the first 64 sends finds a space when it
\* waits and returns Ok; a later send that has returned has returned Timeout;
\* and from the 65th send on head, the slots and both semaphores stay as they
\* are.
C13_SendsWithoutReceiver ==
  /\ [](/\ (s_calls <= kSlotCount /\ s_spc = "wait") => s_spaces > 0
        /\ (s_calls <= kSlotCount /\ s_spc = "idle") => Len(s_sent) = s_calls
        /\ (s_calls >= 1 /\ s_calls <= kSlotCount /\ s_spc = "idle") => s_sres = "kOk"
        /\ (s_calls > kSlotCount /\ s_spc = "idle") => s_sres = "kTimeout"
        /\ Len(s_sent) <= kSlotCount)
  /\ [][s_calls' > kSlotCount => UNCHANGED <<s_head, s_slots, s_spaces, s_items>>]_vars

\* 64 sends have returned Ok on a fresh ring and the 65th and 66th have timed
\* out.
C13_Witness ==
  /\ s_calls = 66
  /\ s_spc = "idle"
  /\ s_sres = "kTimeout"
  /\ Len(s_sent) = 64
  /\ s_head = <<0, 0, 0, 64>>
  /\ s_spaces = 0
  /\ s_items = 64

ReconnectInit == PInit /\ QIdleInit /\ CIdle /\ WIdle /\ SIdle /\ KIdle("reconnect") /\ OIdle /\ DIdle /\ BIdle /\ RIdle

SpecReconnect == ReconnectInit /\ [][PNext]_vars

\* C3: at most one inner pipe is installed at any time.  The worker is in its
\* connect episode (from the max_attempts test to the installation) only while
\* no inner pipe is installed, so the dialler is invoked only then; an
\* installation never replaces an installed pipe; and between an installation
\* and the next call of the dialler the pipe has been cleared, by a disconnect
\* or by close.
C3_OneInnerPipe ==
  /\ [](p_thr["w"].pc \in {"loop", "latch", "dial", "install", "seterr", "backoff"} => p_inner = 0)
  /\ [][/\ p_dials' # p_dials => p_inner = 0
        /\ p_inner' # p_inner => (p_inner = 0 \/ p_inner' = 0)
        /\ (p_inner' # 0 /\ p_inner' # p_inner) => p_inner' = Len(p_pipes)]_vars

\* The first pipe was installed, a disconnect cleared and closed it, and the
\* second pipe the dialler returned is installed now.
C3_Witness ==
  /\ p_inner = 2
  /\ p_dials = 2
  /\ ~p_pipes[1]
  /\ p_pipes[2]
  /\ ~p_closed

\* C4: a caller that saw a Closed or IoError from a pipe that is no longer the
\* installed one changes nothing once a newer pipe is installed: its steps
\* leave the installed pipe installed and open, leave the state alone and
\* deliver no callback.
C4_StaleErrorHarmless ==
  [][\A c \in PCallers :
       (/\ p_thr[c].pc \in {"mark", "set_state", "callback", "closeold"}
        /\ p_thr[c].snap # 0
        /\ p_inner # 0
        /\ p_inner # p_thr[c].snap
        /\ p_thr'[c] # p_thr[c])
       => /\ p_inner' = p_inner
          /\ p_pipes'[p_inner] = p_pipes[p_inner]
          /\ p_state' = p_state
          /\ p_cb' = p_cb]_vars

\* C5: Closed is terminal: once close has moved the state to Closed the state
\* never changes, and once the Closed callback has been delivered no callback
\* is invoked again.
C5_ClosedTerminal ==
  [][/\ p_state = "kClosed" => p_state' = "kClosed"
     /\ (p_state = "kClosed" /\ p_cb = "kClosed") => p_cb' = "kClosed"]_vars

\* The documented relation on the states given to the callback; attempts may
\* be exhausted in the first connect episode as well as in a later one.
PEdges ==
  {<<"kConnecting", "kConnected">>, <<"kConnected", "kDisconnected">>,
   <<"kDisconnected", "kReconnecting">>, <<"kReconnecting", "kConnected">>,
   <<"kReconnecting", "kDisconnected">>, <<"kConnecting", "kDisconnected">>}
  \cup {<<st, "kClosed">> : st \in {"kConnecting", "kConnected", "kDisconnected", "kReconnecting"}}

\* C11: the first state given to the callback is Connecting (it is the one
\* delivered by the constructor), and whenever the callback is given a state
\* other than the one it was given last, the pair is an edge of the documented
\* relation; so Reconnecting comes only directly after Disconnected.
C11_CallbackEdges ==
  /\ (p_cb = "kConnecting")
  /\ [][p_cb' # p_cb => <<p_cb, p_cb'>> \in PEdges]_vars

\* A reconnect pipe with a thread that sends and a thread that closes.
ShutdownInit ==
  /\ PInitWith(PMaxAttempts, {-1}, {{"b"}})
  /\ QIdleInit /\ CIdle /\ WIdle /\ SIdle /\ KIdle("reconnect") /\ OIdle /\ DIdle /\ BIdle /\ RIdle

\* close sets closed_ and calls notify_all under mu_, so a thread waiting in
\* wait_connected is woken with its predicate true and returns from the wait.
SpecShutdown ==
  /\ ShutdownInit
  /\ [][PNext]_vars
  /\ WF_vars(\E c \in PCallers : PWaitConnected(c))

\* C12: once the pipe is closed, a send or recv waiting in wait_connected
\* does nothing but return Closed, without a dial, and without a call of an
\* inner pipe if it had made none; and it does return.  A send or recv
\* started after close is such a call from its first step.
C12_CloseReleasesCallers ==
  /\ [][\A c \in PCallers :
          (p_closed /\ p_thr[c].pc = "wait" /\ p_thr'[c] # p_thr[c])
          => /\ p_thr'[c].pc = "idle"
             /\ p_res'.code = "kClosed"
             /\ p_res'.passed = p_thr[c].passed
             /\ p_dials' = p_dials
             /\ p_pipes' = p_pipes]_vars
  /\ \A c \in PCallers :
       (p_closed /\ p_thr[c].pc = "wait") ~> (p_thr[c].pc = "idle" /\ p_res.code = "kClosed")

\* A send called after close has returned, while the pipe the worker installed
\* after the close is still installed, has returned Closed without
\* a call of that pipe.
C12_Witness ==
  /\ p_closed
  /\ p_inner # 0
  /\ p_thr["x"].pc = "idle"
  /\ p_thr["w"].pc = "done"
  /\ p_thr["a"].pc = "idle"
  /\ p_res = [code |-> "kClosed", passed |-> 0]

\* One thread sends on a reconnect pipe whose dialler fails its first N calls
\* and succeeds from then on, N < MaxDials; max_attempts is 0, 1 or 2.  The
\* inner pipe accepts every message; nobody calls close.
SendInit ==
  /\ PInitWith({0, 1, 2}, 0..(MaxDials - 1), {{"b", "x"}})
  /\ QIdleInit /\ CIdle /\ WIdle /\ SIdle /\ KIdle("reconnect") /\ OIdle /\ DIdle /\ BIdle /\ RIdle

\* The steps of the worker while no pipe goes away.
PSendWorker ==
  \/ PWorkerTop
  \/ PWorkerCheck
  \/ PWorkerLoop
  \/ PWorkerLatch
  \/ \E ok \in BOOLEAN : PDialReturn(ok)
  \/ PWorkerInstall
  \/ PWorkerSetErr
  \/ PWorkerBackoff

\* The steps set_state is made of, in any thread.
PSendSetState ==
  \/ \E t \in PThreads : set_state(t)
  \/ \E t \in PThreads : PCallback(t)

\* The steps of a send that has been called, but for the timeout.
PSendCaller ==
  \/ PWaitConnected("a")
  \/ snapshot_inner("a")
  \/ PInnerReturn("a", "kOk")

PSendNext ==
  \/ PSendWorker
  \/ PSendSetState
  \/ \E timeout \in PTimeouts("a") : PCall("a", timeout)
  \/ PSendCaller
  \/ PWaitTimeout("a")

\* The worker and the sending thread are threads of their own that run when
\* they can: a dial returns, a backoff wait times out, a wait on cv_ returns
\* once its predicate holds (and stays true: no pipe is cleared here).  Nothing
\* makes the caller call, and a timeout runs out only if it can.
SpecSend ==
  /\ SendInit
  /\ [][PSendNext]_vars
  /\ WF_vars(PSendWorker)
  /\ WF_vars(PSendSetState)
  /\ WF_vars(PSendCaller)

\* max_attempts is 0 or greater than the number of dials that fail.
PDiallerGetsThrough == p_max = 0 \/ p_max > p_failN

\* C10: with a dialler that fails its first N calls and then succeeds, and
\* max_attempts 0 or greater than N, a send with timeout 0 returns only while
\* a pipe is installed, returns nothing but Ok, has then called the inner
\* pipe's send exactly once, and does return.
C10_SendEventuallyOk ==
  /\ [][(/\ PDiallerGetsThrough
         /\ p_thr["a"].pc # "idle"
         /\ p_thr["a"].timeout = 0
         /\ p_thr'["a"].pc = "idle")
        => /\ p_inner # 0
           /\ p_res' = [code |-> "kOk", passed |-> 1]]_vars
  /\ (PDiallerGetsThrough /\ p_thr["a"].pc = "wait" /\ p_thr["a"].timeout = 0)
       ~> (p_thr["a"].pc = "idle" /\ p_res = [code |-> "kOk", passed |-> 1])

\* The dialler has failed once and succeeded once with max_attempts 2, the
\* pipe it returned is installed, and the send has returned Ok after one call
\* of that pipe's send.
C10_Witness ==
  /\ p_failN = 1
  /\ p_max = 2
  /\ p_dials = 2
  /\ p_attempts = 1
  /\ p_inner = 1
  /\ p_thr["a"].pc = "idle"
  /\ p_res = [code |-> "kOk", passed |-> 1]

\* One pipe is in use: a ShmPipe, a QosPipe or a StateCallbackPipe around a
\* ShmPipe, or a ReconnectPipe with a thread that sends and a thread that
\* closes.
CloseInit ==
  /\ QIdleInit /\ CIdle /\ WIdle /\ SIdle /\ OIdle /\ DIdle /\ BIdle /\ RIdle
  /\ \/ KInit /\ PIdle
     \/ KIdle("reconnect") /\ PInitWith(PMaxAttempts, {-1}, {{"b"}})

CloseNext == KNext \/ PNext

SpecClose == CloseInit /\ [][CloseNext]_vars

\* C9: close is idempotent on every pipe kind.  No resource of the ShmPipe is
\* released or unlinked twice and no pipe calls its callback with Closed
\* twice; a close of a ShmPipe, QosPipe or StateCallbackPipe after the first
\* returns and changes nothing; a close of a ReconnectPipe that is closed
\* returns at once and changes nothing (a step of the closing thread, or one
\* that moves no thread, is that close).
C9_CloseIdempotent ==
  /\ [](/\ k_shm.munmap <= 1
        /\ k_shm.fdclose <= 1
        /\ k_shm.sem_close <= 1
        /\ k_shm.unlink <= 1
        /\ Cardinality({i \in 1..Len(k_cbs) : k_cbs[i] = "kClosed"}) <= 1)
  /\ [][(k_closes >= 1 /\ k_closes' = k_closes + 1)
        => UNCHANGED <<k_kind, k_shm, k_running, k_sc, k_cbs>>]_vars
  /\ [][(/\ k_kind = "reconnect"
         /\ p_closed
         /\ p_thr["x"].pc = "idle"
         /\ (p_thr'["x"] # p_thr["x"] \/ p_thr' = p_thr))
        => /\ p_res' = [code |-> "returned", passed |-> 0]
           /\ UNCHANGED <<p_max, p_failN, p_closed, p_failed, p_state, p_ever, p_lasterr, p_inner,
                          p_pipes, p_dials, p_attempts, p_r, p_thr, p_cb>>]_vars

\* A StateCallbackPipe around the ShmPipe that owns the names has reported a
\* disconnect and has been closed three times: one Closed callback, every
\* resource released once.
C9_Witness ==
  /\ k_kind = "statecb"
  /\ k_closes = 3
  /\ k_cbs = <<"kDisconnected", "kClosed">>
  /\ k_shm.owner
  /\ k_shm.unlink = 1
  /\ k_shm.munmap = 1
  /\ ~k_shm.linked

CodecInit == CInit /\ QIdleInit /\ WIdle /\ SIdle /\ PIdle /\ KIdle("none") /\ OIdle /\ DIdle /\ BIdle /\ RIdle

SpecCodec == CodecInit /\ [][CNext]_vars

\* The valid headers of the claim: magic 0x44554354, version 1, header_len
\* 16, payload_len at most 65536, any flags.
CValid(h) ==
  /\ h.magic = <<68, 85, 67, 84>>
  /\ h.version = <<0, 1>>
  /\ h.header_len = <<0, 16>>
  /\ h.payload_len[1] = 0
  /\ h.payload_len[2] * 65536 + h.payload_len[3] * 256 + h.payload_len[4] <= 65536

\* C7: for every valid header h, decode_header(encode_header(h)) succeeds and
\* returns h field for field, and the 16 encoded bytes hold the fields
\* big-endian (most significant byte first) at offsets 0, 4, 6, 8 and 12,
\* whatever the byte order of the encoding and of the decoding host.
C7_HeaderRoundTrip ==
  /\ (c_out # <<>> /\ CValid(c_h)) =>
        /\ Len(c_out) = 16
        /\ SubSeq(c_out, 1, 4) = c_h.magic
        /\ SubSeq(c_out, 5, 6) = c_h.version
        /\ SubSeq(c_out, 7, 8) = c_h.header_len
        /\ SubSeq(c_out, 9, 12) = c_h.payload_len
        /\ SubSeq(c_out, 13, 16) = c_h.flags
  /\ (c_dec # CNoResult /\ CValid(c_h)) => (c_dec.ok /\ c_dec.value = c_h)

\* A header announcing 65536 bytes with all 32 flag bits set has been encoded
\* on a little-endian host and decoded on a big-endian one.
C7_Witness ==
  /\ c_dec # CNoResult
  /\ CValid(c_h)
  /\ c_h.payload_len = <<0, 1, 0, 0>>
  /\ c_h.flags = <<255, 255, 255, 255>>
  /\ c_encLE /\ ~c_decLE

\* C6: over a reliable stream written with write_frame only, whatever the
\* partial sends, partial receives and EINTR retries, the i-th read_frame
\* returns Ok with exactly the bytes of the i-th frame written (0 and 65536
\* bytes included), and a read_frame beyond the last frame returns Closed, which
\* happens only after the writing end has closed.
C6_FrameRoundTrip ==
  ~w_raw =>
    \A i \in 1..Len(w_rlog) :
      IF i <= Len(w_sent)
        THEN w_rlog[i].code = "kOk" /\ w_rlog[i].payload = w_sent[i]
        ELSE w_rlog[i].code = "kClosed" /\ w_wclosed

\* A frame of 65536 bytes and an empty frame were written and read back, and
\* the third read_frame returned Closed.
C6_Witness ==
  /\ ~w_raw
  /\ w_wLE /\ ~w_rLE
  /\ w_sent = <<Run(65536, 120), <<>> >>
  /\ Len(w_rlog) = 3
  /\ w_rlog[1].payload = Run(65536, 120)
  /\ w_rlog[2].code = "kOk"
  /\ w_rlog[3].code = "kClosed"

\* The 16 header bytes, read big-endian, are not a header of this protocol.
HdrBad(b) ==
  \/ SubSeq(b, 1, 4) # <<68, 85, 67, 84>>
  \/ SubSeq(b, 5, 6) # <<0, 1>>
  \/ SubSeq(b, 7, 8) # <<0, 16>>
  \/ b[9] > 0
  \/ b[10] * 65536 + b[11] * 256 + b[12] > 65536

\* C8: when the 16 header bytes read_frame has read carry a wrong magic, a
\* version other than 1, a header_len other than 16 or a payload_len above
\* 65536, read_frame returns ProtocolError having taken exactly those 16 bytes
\* off the stream; any other header (payload_len 65536 included) is not
\* rejected.
C8_BadHeaderRejected ==
  w_rhdr # <<>> =>
    IF HdrBad(w_rhdr)
      THEN /\ w_rpc = "idle"
           /\ w_rlog[Len(w_rlog)].code = "kProtocolError"
           /\ w_rlog[Len(w_rlog)].used = 16
      ELSE ~(w_rpc = "idle" /\ w_rlog[Len(w_rlog)].code = "kProtocolError")

\* A header announcing 65537 bytes was rejected and the bytes behind it are
\* still on the stream.
C8_Witness ==
  /\ w_rhdr = <<68, 85, 67, 84, 0, 1, 0, 16, 0, 1, 0, 1, 0, 0, 0, 0>>
  /\ w_rpc = "idle"
  /\ w_rlog[Len(w_rlog)].code = "kProtocolError"
  /\ w_rused = 16
  /\ BLen(w_stream) >= 2

=============================================================================
